---- MODULE Spec2Model ----
(***************************************************************************)
(* Verification model of the video watermark removal tool:                 *)
(*   - the worker pool manager (app/lama_manager.py, LamaCleanerManager)   *)
(*   - the processing pipeline (gui_app/app/pipeline.py,                   *)
(*     VideoProcessingPipeline) and its caller ProcessingWorker.run.       *)
(* Three specifications share the module: SpecMgr drives the manager and   *)
(* the worker processes around it, SpecPipe drives one pipeline run, and   *)
(* SpecClassify drives a run up to the end of the frame classification     *)
(* over a wider set of segment lists.                                      *)
(***************************************************************************)
EXTENDS Integers, Sequences, FiniteSets, TLC

(***************************************************************************)
(* Program constants (gui_app/app/config.py, AppConfig).                   *)
(***************************************************************************)
BASE_PORT == 8080
MAX_INSTANCE_COUNT == 8

(***************************************************************************)
(* Bounds of the model.                                                    *)
(***************************************************************************)
\* largest valid target count passed to set_instance_count
MaxTarget == 2
\* number of worker processes that exist at the same time
MaxWorkers == 2
\* number of foreign (not launched by the manager) listeners at the same time
MaxForeign == 1

None == "None"

VARIABLES
    \* ---- worker pool manager ----
    instances,      \* LamaCleanerManager._instances, each with its process
    strays,         \* per port: the live processes the manager holds no handle of
    mgrPc,          \* where the (single-threaded) manager call stands
    mgrDelta,       \* iterations left in _scale_up / _scale_down
    mgrProc,        \* the process _start_instance has launched and waits for
    mgrPolled,      \* _wait_for_port went through its loop body at least once
    mgrCall,        \* the call in progress, or the call that has just ended
    resolver,       \* _conflict_resolver: "none" or "callback"
    lastConflict,   \* what _handle_port_conflict_if_needed has just seen and done
    \* ---- pipeline run (ProcessingWorker.run -> VideoProcessingPipeline.run) ----
    cfg,            \* ProcessConfig and the probed video: frames, fps, segments, lama_ports
    stage,          \* where run() stands
    outcome,        \* the signal ProcessingWorker.run emits: success, cancelled, error
    cancel,         \* cancel_event
    workspace,      \* the job folder: "none", "present", "removed"
    keep_temp,      \* config.keep_temp, read by the cleanup step
    total_count,    \* _total_count
    done_count,     \* _done_count
    progressLog,    \* the (done, total) pairs passed to the progress callback, in order
    progressLock,   \* _progress_lock: the unit holding it, NoUnit when free
    output,         \* the output directory: frame index -> bytes, Missing when absent
    masked_tasks,   \* the inpaint tasks built by _prepare_tasks, in frame order
    unitPc,         \* per dispatch unit (worker_idx + 1): where _worker_process_tasks stands
    unitPos,        \* per dispatch unit: number of tasks of its shard it has completed
    unitArg,        \* per dispatch unit: the done value it evaluated for the callback
    posts,          \* per frame: number of inpaint requests sent for it
    postsAfterCancel, \* per dispatch unit: requests it sent while cancel_event was set
    errors,         \* the errors list of _process_masked_tasks, in completion order
    commands,       \* the media-tool subprocesses started so far, in order
    capabilities,   \* what ffmpeg has listed when asked: "cuda" (-hwaccels), "nvenc" (-encoders)
    checkpoint,     \* whether _check_cancelled has returned since the last subprocess
                    \* was started, and which subprocesses were started when it had not
    failure,        \* why run() raised: "none" while it has not
    \* ---- job folders of several runs (VideoProcessingPipeline._prepare_job_folder) ----
    clock,          \* what datetime.now() returns, in ticks of its resolution
    jobDirs,        \* the job folders that exist under workspace_jobs
    jobRuns,        \* per run: whether it is in progress, and its job_root
    \* ---- the mask cache of a dispatch (_process_masked_tasks) ----
    mask_cache,     \* mask_cache: key -> bytes, Missing when the key is absent
    cacheUnits,     \* per unit: its masks in task order, where it stands, what it read
                    \* from disk, and the mask path and bytes of its last request
    \* ---- the segment editor of the main window (MainWindow) ----
    video_info,     \* self.video_info: total_frames and fps, NoVideo while it is None
    self_segments,  \* self.segments: start_frame, end_frame and segment_id of each
    edit            \* the last operation on the window, its inputs and how it ended

mgrVars == <<instances, strays, mgrPc, mgrDelta, mgrProc, mgrPolled, mgrCall,
             resolver, lastConflict>>

pipeVars == <<cfg, stage, outcome, cancel, workspace, keep_temp, total_count,
              done_count, progressLog, progressLock, output, masked_tasks, unitPc,
              unitPos, unitArg, posts, postsAfterCancel, errors, commands, checkpoint,
              capabilities, failure>>

jobVars == <<clock, jobDirs, jobRuns>>

\* the variables neither the manager nor the single pipeline run touches
cacheVars == <<mask_cache, cacheUnits>>

editorVars == <<video_info, self_segments, edit>>

sideVars == <<jobVars, cacheVars, editorVars>>

vars == <<instances, strays, mgrPc, mgrDelta, mgrProc, mgrPolled, mgrCall,
          resolver, lastConflict, cfg, stage, outcome, cancel, workspace, keep_temp,
          total_count, done_count, progressLog, progressLock, output, masked_tasks,
          unitPc, unitPos, unitArg, posts, postsAfterCancel, errors, commands,
          checkpoint, capabilities, failure, clock, jobDirs, jobRuns,
          mask_cache, cacheUnits, video_info, self_segments, edit>>

(***************************************************************************)
(* Process names, as sequences of characters, so that strip() and lower()  *)
(* are computed and not assumed.                                           *)
(***************************************************************************)
LamaExeName == <<"l","a","m","a","-","c","l","e","a","n","e","r",".","e","x","e">>
PaddedMixedLamaName == <<" ","L","a","m","a","-","C","l","e","a","n","e","r",".","E","X","E"," ">>
PythonName == <<"p","y","t","h","o","n",".","e","x","e">>
BackupLamaName == <<"l","a","m","a","-","c","l","e","a","n","e","r",".","e","x","e",".","b","a","k">>
\* _process_name_from_pid's sentinel
UnknownName == <<"u","n","k","n","o","w","n">>

ForeignNames == {LamaExeName, PaddedMixedLamaName, PythonName, BackupLamaName}

LowerChar(c) ==
    CASE c = "L" -> "l" [] c = "C" -> "c" [] c = "E" -> "e" [] c = "X" -> "x"
      [] c = "A" -> "a" [] c = "M" -> "m" [] c = "N" -> "n" [] c = "R" -> "r"
      [] OTHER -> c

Lower(s) == [i \in 1..Len(s) |-> LowerChar(s[i])]

RECURSIVE LStrip(_)
LStrip(s) == IF s # <<>> /\ Head(s) = " " THEN LStrip(Tail(s)) ELSE s

RECURSIVE RStrip(_)
RStrip(s) == IF s # <<>> /\ s[Len(s)] = " " THEN RStrip(SubSeq(s, 1, Len(s) - 1)) ELSE s

Strip(s) == RStrip(LStrip(s))

\* a name test that accepts every owner
IsLamaProcessNameAny(process_name) == TRUE

\* LamaCleanerManager._is_lama_process_name
IsLamaProcessName(process_name) == Lower(Strip(process_name)) = LamaExeName

(***************************************************************************)
(* Processes. A ManagedInstance is modelled with the state of the process  *)
(* its handle refers to. Live processes the manager has no handle of (a    *)
(* worker that survived its stop, a foreign program) are the strays.       *)
(***************************************************************************)
Ports == BASE_PORT .. (BASE_PORT + MaxTarget - 1)

\* subprocess.Popen of the worker executable on a port
NewWorker(port) ==
    [port |-> port, alive |-> TRUE, listening |-> FALSE, marker |-> FALSE]

\* the process is gone: its socket is closed; only the handle is left
Exited(p) == [port |-> p.port, alive |-> FALSE, listening |-> FALSE, marker |-> FALSE]

\* no process is being started
NoProc == [port |-> 0, alive |-> FALSE, listening |-> FALSE, marker |-> FALSE]

NoListener == [managed |-> FALSE, name |-> <<>>]
WorkerListener == [managed |-> TRUE, name |-> LamaExeName]
ForeignListener(name) == [managed |-> FALSE, name |-> name]
NoStrays == [idle |-> 0, listener |-> NoListener]

\* who listens on a port: an instance of the registry, the process being
\* started, a stray, or nobody
NoPid == [kind |-> "none", idx |-> 0]
InstPid(i) == [kind |-> "inst", idx |-> i]
CurPid == [kind |-> "cur", idx |-> 0]
StrayPid(port) == [kind |-> "stray", idx |-> port]

Listeners(port) ==
    {InstPid(i) : i \in {j \in 1..Len(instances) :
                            instances[j].listening /\ instances[j].port = port}}
    \cup (IF mgrProc.listening /\ mgrProc.port = port THEN {CurPid} ELSE {})
    \cup (IF port \in Ports /\ strays[port].listener # NoListener
          THEN {StrayPid(port)} ELSE {})

\* LamaCleanerManager._is_port_open: a loopback connect succeeds
IsPortOpen(port) == Listeners(port) # {}

\* LamaCleanerManager._is_port_free
IsPortFree(port) == ~IsPortOpen(port)

\* what tasklist shows for a pid
NameOf(pid) ==
    IF pid.kind = "stray" THEN strays[pid.idx].listener.name ELSE LamaExeName

InstancePorts == [i \in 1..Len(instances) |-> instances[i].port]

RECURSIVE AliveOnly(_)
\* LamaCleanerManager._remove_dead_instances: keep, in order, the instances
\* whose process.poll() is None
AliveOnly(insts) ==
    IF insts = <<>> THEN <<>>
    ELSE IF Head(insts).alive THEN <<Head(insts)>> \o AliveOnly(Tail(insts))
         ELSE AliveOnly(Tail(insts))

\* the port after the one of the most recently started instance
ScaleUpPortAfterLast ==
    IF instances = <<>> THEN BASE_PORT ELSE instances[Len(instances)].port + 1

\* LamaCleanerManager._scale_up: port = AppConfig.BASE_PORT + len(self._instances)
ScaleUpPort == BASE_PORT + Len(instances)

(***************************************************************************)
(* _handle_port_conflict_if_needed as a function of what it observes:      *)
(*   free    the loopback connect failed (_is_port_free)                   *)
(*   found   the pid netstat reports as listener, or NoPid                 *)
(*   name    what tasklist resolved for that pid, UnknownName on failure   *)
(*   answer  what the resolver callback answers: "true", "false", "raise"  *)
(*   killOk  whether taskkill reports success (_terminate_pid)             *)
(* The result tells whether taskkill was issued, whether the owner is gone *)
(* and whether the method raised.                                          *)
(***************************************************************************)
ResolverAnswers == {"true", "false", "raise"}

\* a resolver whose failure counts as consent
ShouldTerminateUnlessDeclined(answer) == resolver = "callback" /\ answer # "false"

\* _handle_port_conflict_if_needed: should_terminate, False unless a resolver
\* is configured and returned true
ShouldTerminate(answer) == resolver = "callback" /\ answer = "true"

ConflictOutcome(free, found, name, answer, killOk) ==
    IF free THEN [raised |-> FALSE, killIssued |-> FALSE, killed |-> FALSE]
    ELSE IF found = NoPid THEN [raised |-> TRUE, killIssued |-> FALSE, killed |-> FALSE]
    ELSE IF ~IsLamaProcessName(name)
        THEN [raised |-> TRUE, killIssued |-> FALSE, killed |-> FALSE]
    ELSE IF ~ShouldTerminate(answer)
        THEN [raised |-> TRUE, killIssued |-> FALSE, killed |-> FALSE]
    ELSE IF ~killOk THEN [raised |-> TRUE, killIssued |-> TRUE, killed |-> FALSE]
    \* the owner was the listener, so _wait_for_port_free finds the port free
    ELSE [raised |-> FALSE, killIssued |-> TRUE, killed |-> TRUE]

\* no conflict check has just run
NoConflict ==
    [port |-> 0, free |-> TRUE, found |-> NoPid, name |-> UnknownName,
     answer |-> "false", killIssued |-> FALSE, raised |-> FALSE]

(***************************************************************************)
(* process.terminate(), process.wait(timeout), and on TimeoutExpired        *)
(* process.kill() and a second process.wait(timeout), as _start_instance    *)
(* and _stop_instance do it:                                               *)
(*   issued          terminate() was called                                *)
(*   exited_in_time  the first wait returned                               *)
(*   kill            kill() was called                                     *)
(*   gone            the process has exited when the sequence ends; when   *)
(*                   it has not, the second wait raised TimeoutExpired     *)
(***************************************************************************)
NoStop == [issued |-> FALSE, exited_in_time |-> FALSE, kill |-> FALSE, gone |-> FALSE]

\* _stop_instance: process.poll() is not None, nothing is sent
AlreadyExited ==
    [issued |-> FALSE, exited_in_time |-> FALSE, kill |-> FALSE, gone |-> TRUE]

\* a kill sent whatever the first wait said
ForceKillAlways(exited_in_time) == TRUE

\* except subprocess.TimeoutExpired: process.kill()
ForceKillNeeded(exited_in_time) == ~exited_in_time

\* the ways the sequence can go for a process that is, or is not, still alive
TerminateThenKill(alive) ==
    {[issued |-> TRUE, exited_in_time |-> e, kill |-> ForceKillNeeded(e), gone |-> g] :
        <<e, g>> \in {x \in (IF alive THEN BOOLEAN ELSE {TRUE}) \X BOOLEAN :
                         x[1] => x[2]}}

\* no call is in progress and none has just ended
IdleCall ==
    [op |-> "none", target |-> 0, current |-> 0, status |-> "returned", ports |-> <<>>,
     stop |-> NoStop]

\* an exception that would leave the loop of _scale_up running
AfterRaiseNextStart == "scale_up"

\* nothing catches an exception between _start_instance or _stop_instance and
\* the caller of set_instance_count or stop_all: the call is over
AfterRaise == "idle"

Raise == /\ mgrPc' = AfterRaise
         /\ mgrCall' = [mgrCall EXCEPT !.status = "raised"]

Return == /\ mgrPc' = "idle"
          /\ mgrCall' = [mgrCall EXCEPT !.status = "returned"]

RECURSIVE SumOver(_, _)
SumOver(f, S) ==
    IF S = {} THEN 0 ELSE LET x == CHOOSE y \in S : TRUE IN f[x] + SumOver(f, S \ {x})

StrayWorkers(st) ==
    SumOver([p \in Ports |-> st[p].idle + (IF st[p].listener.managed THEN 1 ELSE 0)],
            Ports)

\* live or registered worker processes
WorkerCount(insts, cur, st) ==
    Len(insts) + (IF cur = NoProc THEN 0 ELSE 1) + StrayWorkers(st)

ForeignCount ==
    Cardinality({p \in Ports : strays[p].listener # NoListener
                                /\ ~strays[p].listener.managed})

\* a worker the manager gave up on stays behind when it survived the kill
Escaped(st, p) ==
    IF ~p.alive THEN st
    ELSE IF p.listening THEN [st EXCEPT ![p.port].listener = WorkerListener]
    ELSE [st EXCEPT ![p.port].idle = @ + 1]

Targets == (0..MaxTarget) \cup {MAX_INSTANCE_COUNT + 1}

\* a range test without the lower bound
TargetAboveMaxOnly(target_count) == target_count > MAX_INSTANCE_COUNT

\* set_instance_count: the two tests that raise ValueError
TargetOutOfRange(target_count) ==
    target_count < 1 \/ target_count > MAX_INSTANCE_COUNT

\* LamaCleanerManager.set_instance_count up to the call of _scale_up/_scale_down
SetInstanceCount(target_count) ==
    /\ UNCHANGED <<pipeVars, sideVars>>
    /\ mgrPc = "idle"
    /\ LET alive == AliveOnly(instances)
           current_count == Len(alive)
           call == [op |-> "set_instance_count", target |-> target_count,
                    current |-> current_count, status |-> "running", ports |-> <<>>,
                    stop |-> NoStop]
       IN IF TargetOutOfRange(target_count)
          THEN /\ mgrCall' = [call EXCEPT !.status = "raised", !.current = 0]
               /\ UNCHANGED <<instances, mgrPc, mgrDelta>>
          ELSE /\ WorkerCount(alive, NoProc, strays) + (target_count - current_count)
                     <= MaxWorkers
               /\ instances' = alive
               /\ IF current_count = target_count
                  THEN /\ mgrCall' = [call EXCEPT !.status = "returned"]
                       /\ UNCHANGED <<mgrPc, mgrDelta>>
                  ELSE IF current_count < target_count
                  THEN /\ mgrCall' = call
                       /\ mgrPc' = "scale_up"
                       /\ mgrDelta' = target_count - current_count
                  ELSE /\ mgrCall' = call
                       /\ mgrPc' = "scale_down"
                       /\ mgrDelta' = current_count - target_count
    /\ lastConflict' = NoConflict
    /\ UNCHANGED <<strays, mgrProc, mgrPolled, resolver>>

\* taskkill on the owner of the port
Killed(insts, pid) ==
    IF pid.kind = "inst" THEN [insts EXCEPT ![pid.idx] = Exited(@)] ELSE insts

KilledStray(st, pid) ==
    IF pid.kind = "stray" THEN [st EXCEPT ![pid.idx].listener = NoListener] ELSE st

\* LamaCleanerManager._start_instance up to the Popen: the conflict check,
\* then the launch
StartInstance ==
    /\ UNCHANGED <<pipeVars, sideVars>>
    /\ mgrPc = "scale_up"
    /\ LET port == ScaleUpPort
           free == IsPortFree(port)
       IN \E found \in (IF free THEN {} ELSE Listeners(port)) \cup {NoPid},
             unknown \in BOOLEAN, answer \in ResolverAnswers, killOk \in BOOLEAN :
            LET name == IF found = NoPid \/ unknown THEN UnknownName ELSE NameOf(found)
                out == ConflictOutcome(free, found, name, answer, killOk)
            IN /\ lastConflict' =
                     [port |-> port, free |-> free, found |-> found, name |-> name,
                      answer |-> answer, killIssued |-> out.killIssued,
                      raised |-> out.raised]
               /\ instances' = IF out.killed THEN Killed(instances, found) ELSE instances
               /\ strays' = IF out.killed THEN KilledStray(strays, found) ELSE strays
               /\ IF out.raised
                  THEN /\ Raise
                       /\ UNCHANGED <<mgrProc, mgrPolled>>
                  ELSE /\ mgrProc' = NewWorker(port)
                       /\ mgrPolled' = FALSE
                       /\ mgrPc' = "wait"
                       /\ UNCHANGED mgrCall
    /\ UNCHANGED <<mgrDelta, resolver>>

\* _start_instance after _wait_for_port returned True: register the instance
StartSucceeded ==
    /\ instances' = Append(instances, [mgrProc EXCEPT !.marker = FALSE])
    /\ mgrDelta' = mgrDelta - 1
    /\ IF mgrDelta = 1 THEN Return ELSE mgrPc' = "scale_up" /\ UNCHANGED mgrCall
    /\ UNCHANGED strays

\* _start_instance after _wait_for_port returned False: stop the process and
\* raise (RuntimeError, or the TimeoutExpired of the second wait)
StartFailed ==
    /\ \E s \in TerminateThenKill(mgrProc.alive) :
          /\ strays' = IF s.gone THEN strays ELSE Escaped(strays, mgrProc)
          /\ mgrCall' = [mgrCall EXCEPT !.status = "raised", !.stop = s]
    /\ mgrPc' = AfterRaise
    /\ UNCHANGED <<instances, mgrDelta>>

\* one pass through the loop body of _wait_for_port
WaitPoll ==
    /\ UNCHANGED <<pipeVars, sideVars>>
    /\ mgrPc = "wait"
    /\ IF ~mgrProc.alive THEN StartFailed /\ mgrProc' = NoProc /\ mgrPolled' = FALSE
       ELSE IF IsPortOpen(mgrProc.port)
       THEN StartSucceeded /\ mgrProc' = NoProc /\ mgrPolled' = FALSE
       ELSE /\ ~mgrPolled
            /\ mgrPolled' = TRUE
            /\ UNCHANGED <<instances, strays, mgrPc, mgrDelta, mgrCall, mgrProc>>
    /\ lastConflict' = NoConflict
    /\ UNCHANGED resolver

\* _is_ready_log_emitted on the log of the process being started
IsReadyLogEmitted == mgrProc.marker

\* the timeout of _wait_for_port elapsed: the log marker decides
WaitTimeout ==
    /\ UNCHANGED <<pipeVars, sideVars>>
    /\ mgrPc = "wait"
    /\ mgrPolled
    /\ IF mgrProc.alive /\ IsReadyLogEmitted THEN StartSucceeded ELSE StartFailed
    /\ mgrProc' = NoProc
    /\ mgrPolled' = FALSE
    /\ lastConflict' = NoConflict
    /\ UNCHANGED resolver

\* a registry that gives up its oldest entry
WithoutFirst(insts) == Tail(insts)

\* what self._instances.pop() leaves in the list
WithoutLast(insts) == SubSeq(insts, 1, Len(insts) - 1)

\* one iteration of _scale_down or of stop_all: pop the last instance and
\* _stop_instance it
StopStep ==
    /\ UNCHANGED <<pipeVars, sideVars>>
    /\ mgrPc \in {"scale_down", "stop_all"}
    /\ instances # <<>>
    /\ LET inst == instances[Len(instances)]
           lastOne == IF mgrPc = "scale_down" THEN mgrDelta = 1 ELSE Len(instances) = 1
       IN /\ instances' = WithoutLast(instances)
          /\ mgrDelta' = IF mgrPc = "scale_down" THEN mgrDelta - 1 ELSE mgrDelta
          /\ \E s \in (IF inst.alive THEN TerminateThenKill(TRUE) ELSE {AlreadyExited}) :
                IF s.gone
                THEN /\ strays' = strays
                     /\ mgrPc' = IF lastOne THEN "idle" ELSE mgrPc
                     /\ mgrCall' = [mgrCall EXCEPT !.stop = s,
                                       !.status = IF lastOne THEN "returned" ELSE @]
                ELSE /\ strays' = Escaped(strays, inst)
                     /\ mgrPc' = AfterRaise
                     /\ mgrCall' = [mgrCall EXCEPT !.stop = s, !.status = "raised"]
    /\ lastConflict' = NoConflict
    /\ UNCHANGED <<mgrProc, mgrPolled, resolver>>

\* LamaCleanerManager.get_ports
GetPorts ==
    /\ UNCHANGED <<pipeVars, sideVars>>
    /\ mgrPc = "idle"
    /\ instances' = AliveOnly(instances)
    /\ mgrCall' = [op |-> "get_ports", target |-> 0, current |-> 0, status |-> "returned",
                   ports |-> [i \in 1..Len(AliveOnly(instances)) |->
                                  AliveOnly(instances)[i].port],
                   stop |-> NoStop]
    /\ lastConflict' = NoConflict
    /\ UNCHANGED <<strays, mgrPc, mgrDelta, mgrProc, mgrPolled, resolver>>

\* LamaCleanerManager.stop_all, up to its loop
StopAll ==
    /\ UNCHANGED <<pipeVars, sideVars>>
    /\ mgrPc = "idle"
    /\ IF instances = <<>>
       THEN /\ mgrCall' = [op |-> "stop_all", target |-> 0, current |-> 0,
                           status |-> "returned",
                           ports |-> <<>>, stop |-> NoStop]
            /\ UNCHANGED mgrPc
       ELSE /\ mgrCall' = [op |-> "stop_all", target |-> 0, current |-> 0,
                           status |-> "running",
                           ports |-> <<>>, stop |-> NoStop]
            /\ mgrPc' = "stop_all"
    /\ lastConflict' = NoConflict
    /\ UNCHANGED <<instances, strays, mgrDelta, mgrProc, mgrPolled, resolver>>

(***************************************************************************)
(* The environment of the manager: what worker and foreign processes do    *)
(* on their own. A call that has ended is "just ended" only until the      *)
(* next step.                                                              *)
(***************************************************************************)
EnvStep ==
    /\ mgrCall' = IF mgrPc = "idle" THEN IdleCall ELSE mgrCall
    /\ lastConflict' = NoConflict
    /\ UNCHANGED <<mgrPc, mgrDelta, mgrPolled, resolver>>
    /\ UNCHANGED <<pipeVars, sideVars>>

\* the process of a registered instance exits on its own
InstanceExit(i) ==
    /\ instances[i].alive
    /\ instances' = [instances EXCEPT ![i] = Exited(@)]
    /\ UNCHANGED <<strays, mgrProc>>
    /\ EnvStep

\* the process being started exits on its own
StartingExit ==
    /\ mgrProc.alive
    /\ mgrProc' = Exited(mgrProc)
    /\ UNCHANGED <<strays, instances>>
    /\ EnvStep

\* a stray process exits on its own
StrayExit(port) ==
    /\ \/ /\ strays[port].listener # NoListener
          /\ strays' = [strays EXCEPT ![port].listener = NoListener]
       \/ /\ strays[port].idle > 0
          /\ strays' = [strays EXCEPT ![port].idle = @ - 1]
    /\ UNCHANGED <<instances, mgrProc>>
    /\ EnvStep

\* the worker of a registered instance binds its port
InstanceBind(i) ==
    /\ instances[i].alive /\ ~instances[i].listening
    /\ IsPortFree(instances[i].port)
    /\ instances' = [instances EXCEPT ![i].listening = TRUE]
    /\ UNCHANGED <<strays, mgrProc>>
    /\ EnvStep

\* the worker being started binds its port
StartingBind ==
    /\ mgrProc.alive /\ ~mgrProc.listening
    /\ IsPortFree(mgrProc.port)
    /\ mgrProc' = [mgrProc EXCEPT !.listening = TRUE]
    /\ UNCHANGED <<strays, instances>>
    /\ EnvStep

\* a stray worker binds its port
StrayBind(port) ==
    /\ strays[port].idle > 0
    /\ IsPortFree(port)
    /\ strays' = [strays EXCEPT ![port] = [idle |-> @.idle - 1, listener |-> WorkerListener]]
    /\ UNCHANGED <<instances, mgrProc>>
    /\ EnvStep

\* the worker being started writes one of the ready banners to its log
StartingEmitMarker ==
    /\ mgrProc.alive /\ ~mgrProc.marker
    /\ mgrProc' = [mgrProc EXCEPT !.marker = TRUE]
    /\ UNCHANGED <<strays, instances>>
    /\ EnvStep

\* some other program starts listening on one of the ports
ForeignStart(port, name) ==
    /\ ForeignCount < MaxForeign
    /\ IsPortFree(port)
    /\ strays' = [strays EXCEPT ![port].listener = ForeignListener(name)]
    /\ UNCHANGED <<instances, mgrProc>>
    /\ EnvStep

(***************************************************************************)
(* The processing pipeline: VideoProcessingPipeline.run, called by         *)
(* ProcessingWorker.run. Segment bounds are whole seconds and fps is a     *)
(* whole number, so the float comparisons of the source are exact and are  *)
(* written here by cross-multiplication: (index - 1) / fps >= start_sec    *)
(* is start_sec * fps <= index - 1. The probed duration is frames / fps.   *)
(***************************************************************************)

\* most frames of a video
MaxFrames == 3
\* most entries of config.lama_ports
MaxPorts == 2
\* most segments of config.segments
MaxSegs == 2

Masks == {"m1", "m2"}

\* what the output directory holds for a frame that has not been written
Missing == <<>>
\* the bytes of extracted frame number index
SourceBytes(index) == <<"frame", index>>
\* the body of a 200 response to the request for a frame and a mask
ResponseContent(index, mask_path) == <<"inpainted", index, mask_path>>

NoUnit == [kind |-> "free"]
Unit(worker_id) == [kind |-> "unit", worker_id |-> worker_id]

Segment(start_sec, end_sec, mask_path) ==
    [start_sec |-> start_sec, end_sec |-> end_sec, mask_path |-> mask_path]

\* a bounds check that accepts every segment
SegmentValidAlways(segment) == TRUE

\* Segment.validate
SegmentValid(segment) ==
    ~(segment.start_sec < 0) /\ ~(segment.end_sec <= segment.start_sec)

\* sorted(segments, key=lambda seg: seg.start_sec): a stable sort
RECURSIVE InsertByStart(_, _)
InsertByStart(seg, sorted) ==
    IF sorted = <<>> THEN <<seg>>
    ELSE IF seg.start_sec < Head(sorted).start_sec THEN <<seg>> \o sorted
    ELSE <<Head(sorted)>> \o InsertByStart(seg, Tail(sorted))

RECURSIVE SortedByStart(_)
SortedByStart(segments) ==
    IF segments = <<>> THEN <<>>
    ELSE InsertByStart(segments[Len(segments)],
                       SortedByStart(SubSeq(segments, 1, Len(segments) - 1)))

\* a validation that accepts every segment list
ValidateSegmentsAlways(segments, frames, fps) == TRUE

\* a validation that also refuses segments that touch
ValidateSegmentsNoTouching(segments, frames, fps) ==
    LET ordered == SortedByStart(segments)
    IN /\ \A k \in 1..Len(ordered) : ~(ordered[k].end_sec * fps > frames)
       /\ \A idx \in 2..Len(ordered) :
             ~(ordered[idx - 1].end_sec >= ordered[idx].start_sec)

\* _validate_segments: TRUE when it returns, FALSE when it raises ValueError
ValidateSegments(segments, frames, fps) ==
    LET ordered == SortedByStart(segments)
    IN /\ \A k \in 1..Len(ordered) : ~(ordered[k].end_sec * fps > frames)
       /\ \A idx \in 2..Len(ordered) :
             ~(ordered[idx - 1].end_sec > ordered[idx].start_sec)

\* the test of _mask_for_time with the end bound included
InSegmentEndInclusive(segment, index, fps) ==
    segment.start_sec * fps <= index - 1 /\ index - 1 <= segment.end_sec * fps

\* the test of _mask_for_time for time_sec = (index - 1) / fps
InSegment(segment, index, fps) ==
    segment.start_sec * fps <= index - 1 /\ index - 1 < segment.end_sec * fps

\* _mask_for_time: the mask of the first segment in the given order that
\* contains the frame's time, None when there is none
MaskForTime(index, fps, segments) ==
    LET hits == {k \in 1..Len(segments) : InSegment(segments[k], index, fps)}
    IN IF hits = {} THEN None
       ELSE segments[CHOOSE k \in hits : \A h \in hits : k <= h].mask_path

\* a frame that is never copied
IsPassThroughNever(mask_path) == FALSE

\* the branch of _prepare_tasks that copies the frame
IsPassThrough(mask_path) == mask_path = None

\* a task for every frame, the copied ones included
MaskedTasksEveryFrame(frames, fps, segments) ==
    [index \in 1..frames |->
        LET mask_path == MaskForTime(index, fps, SortedByStart(segments))
        IN [frame |-> index,
            mask_path |-> IF mask_path = None THEN "m1" ELSE mask_path]]

\* _prepare_tasks: the masked tasks in frame order
RECURSIVE MaskedTasks(_, _, _)
MaskedTasks(frames, fps, segments) ==
    IF frames = 0 THEN <<>>
    ELSE LET mask_path == MaskForTime(frames, fps, SortedByStart(segments))
             rest == MaskedTasks(frames - 1, fps, segments)
         IN IF IsPassThrough(mask_path) THEN rest
            ELSE Append(rest, [frame |-> frames, mask_path |-> mask_path])

\* every output file under the name of the first frame
OutputNameFirst(index) == 1

\* output_path = output_dir / frame_path.name: the numeric name of the output
\* file of frame number index
OutputName(index) == index

\* _prepare_tasks: the output directory after the copies, made in frame order
CopiedOutput(frames, fps, segments) ==
    LET copied == {index \in 1..frames :
                      IsPassThrough(MaskForTime(index, fps, SortedByStart(segments)))}
    IN [name \in 1..frames |->
          LET written == {index \in copied : OutputName(index) = name}
          IN IF written = {} THEN Missing
             ELSE SourceBytes(CHOOSE index \in written : \A w \in written : w <= index)]

\* _update_progress_bulk that adds the amount twice
UpdateProgressBulkTwice(done, amount) == done + amount + amount

\* _update_progress_bulk without the addition
UpdateProgressBulkNoCount(done, amount) == done

\* _update_progress_bulk: the new _done_count
UpdateProgressBulk(done, amount) == done + amount

\* assignments[worker_idx] of _process_masked_tasks for worker_id = worker_idx + 1:
\* the positions in masked_tasks whose 0-based index is worker_idx modulo the
\* number of ports
AssignmentAllToFirst(worker_id, port_count, task_count) ==
    IF worker_id = 1 THEN [j \in 1..task_count |-> j] ELSE <<>>

Assignment(worker_id, port_count, task_count) ==
    LET count == IF task_count >= worker_id
                 THEN ((task_count - worker_id) \div port_count) + 1 ELSE 0
    IN [j \in 1..count |-> worker_id + (j - 1) * port_count]

\* the shard of a unit in the current run
Assigned(worker_id) ==
    Assignment(worker_id, Len(cfg.lama_ports), Len(masked_tasks))

\* config.lama_ports as LamaCleanerManager hands them out
LamaPorts(count) == [i \in 1..count |-> BASE_PORT + i - 1]

\* a cancellation checkpoint that never sees the flag
CancelNeverObserved == FALSE

\* _check_cancelled: cancel_event.is_set()
CancelObserved == cancel

\* _progress_lock that every thread can take at any time
LockAlwaysAvailable(worker_id) == TRUE

\* _progress_lock can be acquired
LockAvailable(worker_id) == progressLock = NoUnit

\* run() ends: the signal ProcessingWorker.run emits
\* no checkpoint passed, no subprocess started
NoCheckpoint == [passed |-> FALSE, unchecked |-> {}]

\* _check_cancelled returned without raising
CheckPassed(cp) == [cp EXCEPT !.passed = TRUE]

\* subprocess.run of a media tool (in _run_command, _has_cuda_hwaccel,
\* _has_nvenc, _run_capture, _probe_audio_codec)
Invoked(cp, name) ==
    [passed |-> FALSE,
     unchecked |-> IF cp.passed THEN cp.unchecked ELSE cp.unchecked \cup {name}]

\* get_video_info: the ffprobe calls for duration, frame rate, resolution and
\* audio codec; the first of them can be the one that fails
GetVideoInfo(cp, first_failed) ==
    IF first_failed THEN Invoked(cp, "probe")
    ELSE Invoked(Invoked(Invoked(Invoked(cp, "probe"), "probe"), "probe"), "probe")

EndRun(signal, why) ==
    /\ stage' = "done"
    /\ outcome' = signal
    /\ failure' = why

\* the whole pipeline state as it is before run() is called
PipeIdle(config, keep) ==
    /\ cfg = config
    /\ keep_temp = keep
    /\ stage = "start"
    /\ outcome = "none"
    /\ cancel = FALSE
    /\ workspace = "none"
    /\ total_count = 0
    /\ done_count = 0
    /\ progressLog = <<>>
    /\ progressLock = NoUnit
    /\ output = [index \in 1..config.frames |-> Missing]
    /\ masked_tasks = <<>>
    /\ unitPc = [w \in 1..Len(config.lama_ports) |-> "idle"]
    /\ unitPos = [w \in 1..Len(config.lama_ports) |-> 0]
    /\ unitArg = [w \in 1..Len(config.lama_ports) |-> 0]
    /\ posts = [index \in 1..config.frames |-> 0]
    /\ postsAfterCancel = [w \in 1..Len(config.lama_ports) |-> 0]
    /\ errors = <<>>
    /\ commands = <<>>
    /\ checkpoint = NoCheckpoint
    /\ capabilities = {}
    /\ failure = "none"

frontVars == <<workspace, total_count, done_count, progressLog, output, masked_tasks>>
unitVars == <<unitPc, unitPos, unitArg, posts, postsAfterCancel, errors, progressLock>>

\* ProcessingWorker.request_cancel while the worker thread is running
RequestCancel ==
    /\ stage # "done"
    /\ ~cancel
    /\ cancel' = TRUE
    /\ UNCHANGED <<cfg, keep_temp, capabilities, checkpoint,
                   commands, stage, outcome, failure, frontVars, unitVars>>
    /\ UNCHANGED <<mgrVars, sideVars>>

\* run: _ensure_preconditions, then the first _check_cancelled
EnsurePreconditions ==
    /\ stage = "start"
    /\ \E tools_exist \in BOOLEAN, masks_exist \in BOOLEAN :
          IF \/ ~tools_exist
             \/ cfg.lama_ports = <<>>
             \/ \E k \in 1..Len(cfg.segments) :
                   \/ ~SegmentValid(cfg.segments[k])
                   \/ (cfg.segments[k].mask_path # None /\ ~masks_exist)
          THEN EndRun("error", "precondition")
          ELSE IF CancelObserved THEN EndRun("cancelled", "cancelled")
          ELSE stage' = "probe" /\ UNCHANGED <<outcome, failure>>
    /\ checkpoint' = IF stage' = "probe" THEN CheckPassed(checkpoint) ELSE checkpoint
    /\ UNCHANGED <<cfg, keep_temp, capabilities, commands, cancel, frontVars, unitVars>>
    /\ UNCHANGED <<mgrVars, sideVars>>

\* run: get_video_info, then _validate_segments
ProbeAndValidate ==
    /\ stage = "probe"
    /\ commands' = Append(commands, "probe")
    /\ \E probe_ok \in BOOLEAN :
          IF ~probe_ok THEN EndRun("error", "probe")
          ELSE IF ~ValidateSegments(cfg.segments, cfg.frames, cfg.fps)
          THEN EndRun("error", "validation")
          ELSE stage' = "job" /\ UNCHANGED <<outcome, failure>>
    /\ \E first_failed \in (IF failure' = "probe" THEN BOOLEAN ELSE {FALSE}) :
          checkpoint' = GetVideoInfo(checkpoint, first_failed)
    /\ UNCHANGED <<cfg, keep_temp, capabilities, cancel, frontVars, unitVars>>
    /\ UNCHANGED <<mgrVars, sideVars>>

\* run: _prepare_job_folder and the input and output directories
PrepareJobFolder ==
    /\ stage = "job"
    /\ workspace' = "present"
    /\ stage' = "extract"
    /\ UNCHANGED <<cfg, keep_temp, capabilities, checkpoint,
                   commands, cancel, outcome, failure, total_count,
                   done_count,
                   progressLog, output, masked_tasks, unitVars>>
    /\ UNCHANGED <<mgrVars, sideVars>>

\* _has_cuda_hwaccel / _has_nvenc: what ffmpeg lists decides the path
HasAccel(from, accelStage, cpuStage) ==
    /\ stage = from
    /\ commands' = Append(commands, "hwaccels")
    /\ \E listed \in BOOLEAN :
          /\ stage' = IF listed THEN accelStage ELSE cpuStage
          /\ capabilities' = IF listed THEN capabilities \cup {"cuda"} ELSE capabilities
    /\ checkpoint' = Invoked(checkpoint, "hwaccels")
    /\ UNCHANGED <<cfg, keep_temp, cancel, outcome, failure, frontVars, unitVars>>
    /\ UNCHANGED <<mgrVars, sideVars>>

\* _run_command: the checkpoint, then the subprocess and its return code
RunCommand(from, okStage, failStage, allow_fail) ==
    /\ stage = from
    /\ IF CancelObserved THEN EndRun("cancelled", "cancelled") /\ UNCHANGED commands
       ELSE /\ commands' = Append(commands, from)
            /\ \E returncode_zero \in BOOLEAN :
                  IF returncode_zero
                  THEN stage' = okStage /\ UNCHANGED <<outcome, failure>>
                  ELSE IF allow_fail
                  THEN stage' = failStage /\ UNCHANGED <<outcome, failure>>
                  ELSE EndRun("error", from)
    /\ checkpoint' = IF commands' = commands THEN checkpoint
                     ELSE Invoked(CheckPassed(checkpoint), from)
    /\ UNCHANGED <<cfg, keep_temp, capabilities, cancel, frontVars, unitVars>>
    /\ UNCHANGED <<mgrVars, sideVars>>

\* every failed command ends the run
AllowFailNever(from) == FALSE

\* the allow_fail argument of the calls of _run_command: True for the CUDA
\* decode and the NVENC encode, False for every other command
AllowFail(from) == from \in {"extract_cuda", "merge_nvenc"}

\* _extract_frames
HasCudaHwaccel == HasAccel("extract", "extract_cuda", "extract_cpu")
ExtractCuda ==
    RunCommand("extract_cuda", "extracted", "extract_cpu", AllowFail("extract_cuda"))
ExtractCpu ==
    RunCommand("extract_cpu", "extracted", "extract_cpu", AllowFail("extract_cpu"))

\* run: _check_cancelled, _collect_frames, the counters and progress(0, total)
CollectFrames ==
    /\ stage = "extracted"
    /\ IF CancelObserved
       THEN EndRun("cancelled", "cancelled")
            /\ UNCHANGED <<total_count, done_count, progressLog>>
       ELSE IF cfg.frames = 0
       THEN EndRun("error", "no_frames")
            /\ UNCHANGED <<total_count, done_count, progressLog>>
       ELSE /\ total_count' = cfg.frames
            /\ done_count' = 0
            /\ progressLog' = Append(progressLog, <<0, cfg.frames>>)
            /\ stage' = "classify"
            /\ UNCHANGED <<outcome, failure>>
    /\ checkpoint' = IF failure' = "cancelled" THEN checkpoint
                     ELSE CheckPassed(checkpoint)
    /\ UNCHANGED <<cfg, keep_temp, capabilities,
                   commands, cancel, workspace, output, masked_tasks,
                   unitVars>>
    /\ UNCHANGED <<mgrVars, sideVars>>

\* run: _prepare_tasks, _update_progress_bulk, and the test of masked_tasks
PrepareTasks ==
    /\ stage = "classify"
    /\ LET tasks == MaskedTasks(cfg.frames, cfg.fps, cfg.segments)
           copied_count == Cardinality({index \in 1..cfg.frames :
                               IsPassThrough(MaskForTime(index, cfg.fps,
                                                         SortedByStart(cfg.segments)))})
       IN /\ masked_tasks' = tasks
          /\ output' = CopiedOutput(cfg.frames, cfg.fps, cfg.segments)
          /\ IF copied_count <= 0
             THEN UNCHANGED <<done_count, progressLog>>
             ELSE /\ done_count' = UpdateProgressBulk(done_count, copied_count)
                  /\ progressLog' = Append(progressLog,
                        <<UpdateProgressBulk(done_count, copied_count), total_count>>)
          /\ stage' = IF tasks # <<>> THEN "dispatch_start" ELSE "pre_merge"
    /\ UNCHANGED <<cfg, keep_temp, capabilities, checkpoint,
                   commands, cancel, outcome, failure, workspace,
                   total_count, unitVars>>
    /\ UNCHANGED <<mgrVars, sideVars>>

\* the task a unit is working on
CurrentTask(worker_id) == masked_tasks[Assigned(worker_id)[unitPos[worker_id] + 1]]

UnitError(worker_id, kind) ==
    [worker_id |-> worker_id, port |-> cfg.lama_ports[worker_id], kind |-> kind]

\* _process_masked_tasks: its _check_cancelled, the assignments, the submits
ProcessMaskedTasks ==
    /\ stage = "dispatch_start"
    /\ IF CancelObserved
       THEN EndRun("cancelled", "cancelled") /\ UNCHANGED unitPc
       ELSE /\ unitPc' = [w \in DOMAIN unitPc |->
                             IF Assigned(w) = <<>> THEN "idle" ELSE "check"]
            /\ stage' = "dispatch"
            /\ UNCHANGED <<outcome, failure>>
    /\ checkpoint' = IF stage' = "dispatch" THEN CheckPassed(checkpoint) ELSE checkpoint
    /\ UNCHANGED <<cfg, keep_temp, capabilities,
                   commands, cancel, frontVars, unitPos, unitArg, posts,
                   postsAfterCancel, errors, progressLock>>
    /\ UNCHANGED <<mgrVars, sideVars>>

\* _worker_process_tasks: the _check_cancelled at the top of the loop body;
\* PipelineCancelled ends the unit and is collected by the except clause of
\* _process_masked_tasks
UnitCheck(worker_id) ==
    /\ stage = "dispatch"
    /\ unitPc[worker_id] = "check"
    /\ IF CancelObserved
       THEN /\ unitPc' = [unitPc EXCEPT ![worker_id] = "cancelled"]
            /\ errors' = Append(errors, UnitError(worker_id, "cancelled"))
       ELSE /\ unitPc' = [unitPc EXCEPT ![worker_id] = "post"]
            /\ UNCHANGED errors
    /\ checkpoint' = IF unitPc'[worker_id] = "post" THEN CheckPassed(checkpoint)
                     ELSE checkpoint
    /\ UNCHANGED <<cfg, keep_temp, capabilities, commands, cancel, stage, outcome, failure,
                   frontVars, unitPos, unitArg,
                   posts, postsAfterCancel, progressLock>>
    /\ UNCHANGED <<mgrVars, sideVars>>

\* the status codes an endpoint answers with
StatusCodes == {200, 500}

\* a unit that sends the request again after a bad answer
AfterBadStatusRetry == "post"

\* _worker_process_tasks: raise RuntimeError on a status code other than 200;
\* the exception leaves the loop and the unit
AfterBadStatus == "failed"

\* _worker_process_tasks: session.post and the test of the status code
UnitPost(worker_id) ==
    /\ stage = "dispatch"
    /\ unitPc[worker_id] = "post"
    /\ posts' = [posts EXCEPT ![CurrentTask(worker_id).frame] = @ + 1]
    /\ postsAfterCancel' = [postsAfterCancel EXCEPT
                               ![worker_id] = IF cancel THEN @ + 1 ELSE @]
    /\ \E status_code \in StatusCodes :
          IF status_code # 200
          THEN /\ unitPc' = [unitPc EXCEPT ![worker_id] = AfterBadStatus]
               /\ errors' = Append(errors, UnitError(worker_id, "http"))
          ELSE /\ unitPc' = [unitPc EXCEPT ![worker_id] = "write"]
               /\ UNCHANGED errors
    /\ UNCHANGED <<cfg, keep_temp, capabilities,
                   checkpoint, commands, cancel, stage, outcome, failure,
                   frontVars, unitPos, unitArg,
                   progressLock>>
    /\ UNCHANGED <<mgrVars, sideVars>>

\* _worker_process_tasks: output_path.write_bytes(response.content)
UnitWrite(worker_id) ==
    /\ stage = "dispatch"
    /\ unitPc[worker_id] = "write"
    /\ LET task == CurrentTask(worker_id)
       IN output' = [output EXCEPT ![OutputName(task.frame)] =
                        ResponseContent(task.frame, task.mask_path)]
    /\ unitPc' = [unitPc EXCEPT ![worker_id] = "lock"]
    /\ UNCHANGED <<cfg, keep_temp, capabilities,
                   checkpoint, commands, cancel, stage, outcome, failure,
                   workspace, total_count,
                   done_count, progressLog, masked_tasks, unitPos, unitArg, posts,
                   postsAfterCancel, errors, progressLock>>
    /\ UNCHANGED <<mgrVars, sideVars>>

\* _update_progress_one: take the lock, add one, evaluate the callback's arguments
UnitCount(worker_id) ==
    /\ stage = "dispatch"
    /\ unitPc[worker_id] = "lock"
    /\ LockAvailable(worker_id)
    /\ progressLock' = Unit(worker_id)
    /\ done_count' = done_count + 1
    /\ unitArg' = [unitArg EXCEPT ![worker_id] = done_count + 1]
    /\ unitPc' = [unitPc EXCEPT ![worker_id] = "emit"]
    /\ UNCHANGED <<cfg, keep_temp, capabilities,
                   checkpoint, commands, cancel, stage, outcome, failure,
                   workspace, total_count,
                   progressLog, output, masked_tasks, unitPos, posts,
                   postsAfterCancel, errors>>
    /\ UNCHANGED <<mgrVars, sideVars>>

\* _update_progress_one: the callback, then the release of the lock; the unit
\* goes on to its next task or returns
UnitEmit(worker_id) ==
    /\ stage = "dispatch"
    /\ unitPc[worker_id] = "emit"
    /\ progressLog' = Append(progressLog, <<unitArg[worker_id], total_count>>)
    /\ progressLock' = NoUnit
    /\ unitPos' = [unitPos EXCEPT ![worker_id] = @ + 1]
    /\ unitPc' = [unitPc EXCEPT ![worker_id] =
                     IF unitPos[worker_id] + 1 < Len(Assigned(worker_id))
                     THEN "check" ELSE "finished"]
    /\ UNCHANGED <<cfg, keep_temp, capabilities,
                   checkpoint, commands, cancel, stage, outcome, failure,
                   workspace, total_count,
                   done_count, output, masked_tasks, unitArg, posts,
                   postsAfterCancel, errors>>
    /\ UNCHANGED <<mgrVars, sideVars>>

UnitSettled(worker_id) == unitPc[worker_id] \in {"idle", "finished", "failed", "cancelled"}

\* an executor that is left without waiting for its units
NoUnitAwaited == TRUE

\* a wait that ends as soon as one unit has raised
FirstErrorOrAllSettled == errors # <<>> \/ \A w \in DOMAIN unitPc : UnitSettled(w)

\* the end of the with-block of _process_masked_tasks: every future is done
AllUnitsSettled == \A w \in DOMAIN unitPc : UnitSettled(w)

\* an errors list that is never looked at
DispatchNeverFailed == FALSE

\* _process_masked_tasks: if errors
DispatchFailed == errors # <<>>

\* _process_masked_tasks after the executor has shut down: raise when any unit
\* raised, else return to run
JoinUnits ==
    /\ stage = "dispatch"
    /\ AllUnitsSettled
    /\ IF DispatchFailed THEN EndRun("error", "dispatch")
       ELSE stage' = "pre_merge" /\ UNCHANGED <<outcome, failure>>
    /\ UNCHANGED <<cfg, keep_temp, capabilities,
                   checkpoint, commands, cancel, frontVars, unitVars>>
    /\ UNCHANGED <<mgrVars, sideVars>>

\* run: the _check_cancelled before _merge_frames, then _has_nvenc
HasNvenc ==
    /\ stage = "pre_merge"
    /\ IF CancelObserved
       THEN EndRun("cancelled", "cancelled") /\ UNCHANGED <<commands, capabilities>>
       ELSE \E listed \in BOOLEAN :
              /\ capabilities' = IF listed THEN capabilities \cup {"nvenc"}
                                 ELSE capabilities
              /\ commands' = Append(commands, "encoders")
              /\ stage' = IF listed THEN "merge_nvenc" ELSE "merge_cpu"
              /\ UNCHANGED <<outcome, failure>>
    /\ checkpoint' = IF commands' = commands THEN checkpoint
                     ELSE Invoked(CheckPassed(checkpoint), "encoders")
    /\ UNCHANGED <<cfg, keep_temp, cancel, frontVars, unitVars>>
    /\ UNCHANGED <<mgrVars, sideVars>>

\* _merge_frames
MergeNvenc == RunCommand("merge_nvenc", "merged", "merge_cpu", AllowFail("merge_nvenc"))
MergeCpu == RunCommand("merge_cpu", "merged", "merge_cpu", AllowFail("merge_cpu"))

\* run: the _check_cancelled after _merge_frames, then _merge_audio up to the
\* test of has_audio
MergeAudioProbe ==
    /\ stage = "merged"
    /\ IF CancelObserved THEN EndRun("cancelled", "cancelled") /\ UNCHANGED commands
       ELSE /\ commands' = Append(commands, "probe")
            /\ \E probe_ok \in BOOLEAN, has_audio \in BOOLEAN :
                  IF ~probe_ok THEN EndRun("error", "probe")
                  ELSE /\ stage' = IF has_audio THEN "audio_extract" ELSE "cleanup"
                       /\ UNCHANGED <<outcome, failure>>
    /\ \E first_failed \in (IF failure' = "probe" THEN BOOLEAN ELSE {FALSE}) :
          checkpoint' = IF commands' = commands THEN checkpoint
                        ELSE GetVideoInfo(CheckPassed(checkpoint), first_failed)
    /\ UNCHANGED <<cfg, keep_temp, capabilities, cancel, frontVars, unitVars>>
    /\ UNCHANGED <<mgrVars, sideVars>>

\* _merge_audio: the two commands of the audio path
ExtractAudio ==
    RunCommand("audio_extract", "audio_mux", "audio_extract", AllowFail("audio_extract"))
MuxAudio == RunCommand("audio_mux", "cleanup", "audio_mux", AllowFail("audio_mux"))

\* a cleanup that removes the job folder whatever the caller asked for
RemoveJobFolderAlways(keep) == TRUE

\* run: if not config.keep_temp
RemoveJobFolder(keep) == ~keep

\* run: the removal of the job folder unless keep_temp, then the return
Cleanup ==
    /\ stage = "cleanup"
    /\ workspace' = IF RemoveJobFolder(keep_temp) THEN "removed" ELSE workspace
    /\ EndRun("success", "none")
    /\ UNCHANGED <<cfg, keep_temp, capabilities, checkpoint,
                   commands, cancel, total_count, done_count, progressLog,
                   output, masked_tasks, unitVars>>
    /\ UNCHANGED <<mgrVars, sideVars>>

(***************************************************************************)
(* Specifications.                                                         *)
(***************************************************************************)

\* no run has been configured
(***************************************************************************)
(* The job folders of several runs that share workspace_jobs (pipelines of *)
(* one process or of several). Only _prepare_job_folder and the removal of *)
(* the folder at the end of a run are modelled.                            *)
(***************************************************************************)
\* the runs that can be in progress at once
MaxRuns == 2
\* the readings the clock goes through
MaxClock == 3

NoJobRoot == <<>>

\* datetime.now().strftime("%Y%m%d-%H%M%S-%f") and the path built from it:
\* one name per reading of the clock
JobRoot(now) == <<"job", now>>

JobsIdle ==
    /\ clock = 0
    /\ jobDirs = {}
    /\ jobRuns = [r \in 1..MaxRuns |-> [pc |-> "idle", job_root |-> NoJobRoot]]

\* the clock moves on to its next reading
ClockTick ==
    /\ clock < MaxClock
    /\ clock' = clock + 1
    /\ UNCHANGED <<jobDirs, jobRuns>>
    /\ UNCHANGED <<mgrVars, pipeVars, cacheVars, editorVars>>

\* _prepare_job_folder of a run: job_root.mkdir(parents=True, exist_ok=True)
\* succeeds whether or not the folder is already there
JobPrepare(r) ==
    /\ jobRuns[r].pc = "idle"
    /\ LET job_root == JobRoot(clock)
       IN /\ jobDirs' = jobDirs \cup {job_root}
          /\ jobRuns' = [jobRuns EXCEPT ![r] = [pc |-> "running", job_root |-> job_root]]
    /\ UNCHANGED clock
    /\ UNCHANGED <<mgrVars, pipeVars, cacheVars, editorVars>>

\* the end of a run: the job folder is removed (success without keep_temp) or
\* stays (keep_temp, or a run that raised)
JobEnd(r) ==
    /\ jobRuns[r].pc = "running"
    /\ \E removed \in BOOLEAN :
          jobDirs' = IF removed THEN jobDirs \ {jobRuns[r].job_root} ELSE jobDirs
    /\ jobRuns' = [jobRuns EXCEPT ![r] = [pc |-> "idle", job_root |-> NoJobRoot]]
    /\ UNCHANGED clock
    /\ UNCHANGED <<mgrVars, pipeVars, cacheVars, editorVars>>

(***************************************************************************)
(* The mask cache shared by the units of one dispatch: the dict created in *)
(* _process_masked_tasks and the three lines of _worker_process_tasks that *)
(* test, fill and read it. Nothing locks it; each line is several steps.   *)
(***************************************************************************)
\* the tasks a unit has at most
MaxCacheTasks == 2

\* the two units that share the cache
CacheUnitIds == {1, 2}

\* mask_path.read_bytes(): the contents of the mask file
MaskBytes(mask_path) == <<"mask", mask_path>>

\* a cache with one entry for all paths
CacheKeyShared(mask_path) == "m1"

\* the key of a mask in mask_cache: its path
CacheKey(mask_path) == mask_path

CacheUnit(masks) ==
    [masks |-> masks, pos |-> 0, pc |-> IF masks = <<>> THEN "finished" ELSE "test",
     bytes |-> Missing, sent |-> Missing]

CacheIdle ==
    /\ mask_cache = [key \in Masks |-> Missing]
    /\ cacheUnits = [w \in CacheUnitIds |-> CacheUnit(<<>>)]

\* the mask path of the task a unit is at
CacheTask(w) == cacheUnits[w].masks[cacheUnits[w].pos + 1]

\* if mask_path not in mask_cache
CacheTest(w) ==
    /\ cacheUnits[w].pc = "test"
    /\ cacheUnits' = [cacheUnits EXCEPT ![w].pc =
                         IF mask_cache[CacheKey(CacheTask(w))] = Missing
                         THEN "read" ELSE "send"]
    /\ UNCHANGED mask_cache
    /\ UNCHANGED <<mgrVars, pipeVars, jobVars, editorVars>>

\* mask_path.read_bytes()
CacheRead(w) ==
    /\ cacheUnits[w].pc = "read"
    /\ cacheUnits' = [cacheUnits EXCEPT ![w].pc = "store",
                                         ![w].bytes = MaskBytes(CacheTask(w))]
    /\ UNCHANGED mask_cache
    /\ UNCHANGED <<mgrVars, pipeVars, jobVars, editorVars>>

\* mask_cache[mask_path] = the bytes just read
CacheStore(w) ==
    /\ cacheUnits[w].pc = "store"
    /\ mask_cache' = [mask_cache EXCEPT ![CacheKey(CacheTask(w))] = cacheUnits[w].bytes]
    /\ cacheUnits' = [cacheUnits EXCEPT ![w].pc = "send"]
    /\ UNCHANGED <<mgrVars, pipeVars, jobVars, editorVars>>

\* the request is built with mask_cache[mask_path] and sent; the unit goes on
\* to its next task or ends
CacheSend(w) ==
    /\ cacheUnits[w].pc = "send"
    /\ cacheUnits' = [cacheUnits EXCEPT
           ![w].sent = <<CacheTask(w), mask_cache[CacheKey(CacheTask(w))]>>,
           ![w].pos = @ + 1,
           ![w].pc = IF cacheUnits[w].pos + 1 < Len(cacheUnits[w].masks)
                     THEN "test" ELSE "finished"]
    /\ UNCHANGED mask_cache
    /\ UNCHANGED <<mgrVars, pipeVars, jobVars, editorVars>>

(***************************************************************************)
(* The segment list of the main window, src/app: segments are pairs of     *)
(* 1-based frame numbers, added from the two spin boxes, edited through    *)
(* the cells of the segment table and removed by their remove buttons.     *)
(* Every handler runs to its end on the GUI thread.                        *)
(***************************************************************************)
\* the frames of the longest video that is loaded
MaxTotalFrames == 3

\* self.video_info is None
NoVideo == [total_frames |-> 0, fps |-> 0]

\* what get_video_info returns of a video: at least one frame, 1 or 2 frames
\* per second
Videos == [total_frames : 1..MaxTotalFrames, fps : {1, 2}]

\* the ids of segments: one more than a list can hold
SegmentIds == 1..(MaxTotalFrames + 1)

\* uuid4().hex[:8] of a new segment: an id no segment of the list has,
\* here the least one
NewSegmentId(segs) ==
    CHOOSE id \in SegmentIds :
        /\ \A idx \in 1..Len(segs) : segs[idx].segment_id # id
        /\ \A other \in SegmentIds :
              (\A idx \in 1..Len(segs) : segs[idx].segment_id # other) => id <= other

\* the text of an edited cell: an integer literal, a decimal literal with
\* value halves/2 ("0.5", "1.5"), "nan", "inf", or text that is no number
CellTexts ==
    {[kind |-> "int", value |-> n] : n \in 0..(MaxTotalFrames + 1)}
        \cup {[kind |-> "decimal", value |-> h] : h \in {1, 3}}
        \cup {[kind |-> k, value |-> 0] : k \in {"nan", "inf", "junk"}}

NoEdit == [op |-> "none", result |-> "none", error |-> "none"]

\* an operation that ended with the exception named by error, or with none
Operation(op, error) ==
    [op |-> op, result |-> IF error = "none" THEN "accepted" ELSE "rejected",
     error |-> error]

EditorIdle ==
    /\ video_info = NoVideo
    /\ self_segments = <<>>
    /\ edit = NoEdit

FrameSegment(start_frame, end_frame, segment_id) ==
    [start_frame |-> start_frame, end_frame |-> end_frame, segment_id |-> segment_id]

\* _validate_segment_bounds does not raise
ValidateSegmentBounds(segment, info) ==
    \/ info = NoVideo
    \/ ~(segment.end_frame > info.total_frames)

IntMax(a, b) == IF a >= b THEN a ELSE b

IntMin(a, b) == IF a <= b THEN a ELSE b

\* overlap = max(starts) <= min(ends)
Overlap(segment, new_segment) ==
    IntMax(segment.start_frame, new_segment.start_frame)
        <= IntMin(segment.end_frame, new_segment.end_frame)

\* _assert_no_overlap does not raise; skip_index is a row of the list, 0 for None
AssertNoOverlap(segs, new_segment, skip_index) ==
    \A idx \in 1..Len(segs) : idx # skip_index => ~Overlap(segs[idx], new_segment)

\* the exception of the three checks of a segment, in their order:
\* Segment.validate with its two tests, _validate_segment_bounds,
\* _assert_no_overlap
SegmentError(segs, segment, skip_index, info) ==
    CASE segment.start_frame < 1 -> "start frame must be >= 1"
      [] segment.end_frame < segment.start_frame -> "end frame must be >= start frame"
      [] ~ValidateSegmentBounds(segment, info) -> "exceeds total frame count"
      [] ~AssertNoOverlap(segs, segment, skip_index) -> "overlaps existing segment"
      [] OTHER -> "none"

\* the list left as it is
KeepOrder(segs) == segs

\* list.sort(key=lambda s: s.start_frame): stable, ascending
RECURSIVE SortByStartFrame(_)
SortByStartFrame(segs) ==
    IF segs = <<>> THEN <<>>
    ELSE LET rest == SortByStartFrame(Tail(segs))
             first == Head(segs)
             before == SelectSeq(rest, LAMBDA s : s.start_frame < first.start_frame)
             after == SelectSeq(rest, LAMBDA s : ~(s.start_frame < first.start_frame))
         IN before \o <<first>> \o after

\* int(text): ok for an integer literal, ValueError otherwise
IntText(text) ==
    IF text.kind = "int" THEN [ok |-> TRUE, value |-> text.value]
    ELSE [ok |-> FALSE, value |-> 0]

\* parse_time_text: float(text) of text without a colon; the seconds in halves
ParseTimeText(text) ==
    CASE text.kind = "int" -> [ok |-> TRUE, kind |-> "finite", halves |-> 2 * text.value]
      [] text.kind = "decimal" -> [ok |-> TRUE, kind |-> "finite", halves |-> text.value]
      [] text.kind \in {"nan", "inf"} -> [ok |-> TRUE, kind |-> text.kind, halves |-> 0]
      [] OTHER -> [ok |-> FALSE, kind |-> "error", halves |-> 0]

\* round(x) of a float x = halves/2: to the nearest integer, a tie to the even one
RoundHalfEven(halves) ==
    LET q == halves \div 2
    IN IF halves % 2 = 0 THEN q
       ELSE IF q % 2 = 0 THEN q ELSE q + 1

\* seconds_to_frame: max(0.0, nan) is 0.0, round(inf) raises OverflowError
SecondsToFrame(seconds, fps, total_frames) ==
    CASE seconds.kind = "inf" -> [ok |-> FALSE, value |-> 0]
      [] seconds.kind = "nan" ->
            [ok |-> TRUE, value |-> IntMax(1, IntMin(total_frames, 1))]
      [] OTHER ->
            LET frame == RoundHalfEven(IntMax(0, seconds.halves) * fps) + 1
            IN [ok |-> TRUE, value |-> IntMax(1, IntMin(total_frames, frame))]

\* the frame a cell text stands for: columns 0 and 2 hold frame numbers,
\* columns 1 and 3 hold times
CellFrame(col, text, info) ==
    IF col \in {0, 2} THEN IntText(text)
    ELSE LET seconds == ParseTimeText(text)
         IN IF seconds.ok THEN SecondsToFrame(seconds, info.fps, info.total_frames)
            ELSE [ok |-> FALSE, value |-> 0]

\* the segment with the frame of the cell assigned: columns 0 and 1 are its
\* start, columns 2 and 3 its end
Assigned2(segment, col, frame) ==
    IF col \in {0, 1} THEN [segment EXCEPT !.start_frame = frame]
    ELSE [segment EXCEPT !.end_frame = frame]

\* the edited value left in the segment
NotRestored(segs, row, edited, old_start, old_end) ==
    [segs EXCEPT ![row] = edited]

\* segment.start_frame = old_start; segment.end_frame = old_end
Restored(segs, row, edited, old_start, old_end) ==
    [segs EXCEPT ![row] = [edited EXCEPT !.start_frame = old_start,
                                         !.end_frame = old_end]]

\* _load_video_file: the probe raises and nothing changes, or video_info is
\* replaced and the spin boxes are set; self.segments is not touched
LoadVideoFile ==
    /\ \E info \in Videos, probed \in BOOLEAN :
          /\ video_info' = IF probed THEN info ELSE video_info
          /\ edit' = Operation("load", IF probed THEN "none" ELSE "probe failed")
    /\ UNCHANGED self_segments
    /\ UNCHANGED <<mgrVars, pipeVars, jobVars, cacheVars>>

\* _add_segment with the values of the spin boxes, which range over
\* 1..total_frames with start <= end
AddSegment ==
    /\ \E start_frame \in 1..MaxTotalFrames, end_frame \in 1..MaxTotalFrames :
          /\ start_frame <= end_frame
          /\ end_frame <= IntMax(1, video_info.total_frames)
          /\ LET segment == FrameSegment(start_frame, end_frame,
                                         NewSegmentId(self_segments))
                 error == IF video_info = NoVideo THEN "load a video first"
                          ELSE SegmentError(self_segments, segment, 0, video_info)
             IN /\ self_segments' = IF error = "none"
                                     THEN SortByStartFrame(Append(self_segments, segment))
                                     ELSE self_segments
                /\ edit' = Operation("add", error)
    /\ UNCHANGED video_info
    /\ UNCHANGED <<mgrVars, pipeVars, jobVars, cacheVars>>

\* _remove_segment_by_id from the remove button of a row
RemoveSegmentById ==
    /\ \E idx \in 1..Len(self_segments) :
          /\ self_segments' = SubSeq(self_segments, 1, idx - 1)
                             \o SubSeq(self_segments, idx + 1, Len(self_segments))
          /\ edit' = Operation("remove", "none")
    /\ UNCHANGED video_info
    /\ UNCHANGED <<mgrVars, pipeVars, jobVars, cacheVars>>

\* _on_segment_table_item_changed for the cell at (row, col) of an existing row
OnSegmentTableItemChanged ==
    /\ \E row \in 1..Len(self_segments), col \in 0..3, text \in CellTexts :
          IF video_info = NoVideo
          THEN /\ self_segments' = self_segments
               /\ edit' = [op |-> "edit", result |-> "ignored", error |-> "none"]
          ELSE LET segment == self_segments[row]
                   old_start == segment.start_frame
                   old_end == segment.end_frame
                   frame == CellFrame(col, text, video_info)
                   edited == IF frame.ok THEN Assigned2(segment, col, frame.value)
                             ELSE segment
                   error == IF ~frame.ok THEN "text is no number"
                            ELSE SegmentError(self_segments, edited, row, video_info)
               IN /\ self_segments' =
                        IF error = "none"
                        THEN SortByStartFrame([self_segments EXCEPT ![row] = edited])
                        ELSE Restored(self_segments, row, edited, old_start, old_end)
                  /\ edit' = Operation("edit", error)
    /\ UNCHANGED video_info
    /\ UNCHANGED <<mgrVars, pipeVars, jobVars, cacheVars>>

NoConfig == [frames |-> 0, fps |-> 1, segments |-> <<>>, lama_ports |-> <<>>]

MgrIdle ==
    /\ instances = <<>>
    /\ strays = [p \in Ports |-> NoStrays]
    /\ mgrPc = "idle"
    /\ mgrDelta = 0
    /\ mgrProc = NoProc
    /\ mgrPolled = FALSE
    /\ mgrCall = IdleCall
    /\ lastConflict = NoConflict

\* the manager as MainWindow constructs it, with or without a conflict resolver
InitMgr ==
    /\ MgrIdle
    /\ JobsIdle
    /\ CacheIdle
    /\ EditorIdle
    /\ resolver \in {"none", "callback"}
    /\ PipeIdle(NoConfig, FALSE)

NextMgr ==
    \/ \E t \in Targets : SetInstanceCount(t)
    \/ StartInstance
    \/ WaitPoll
    \/ WaitTimeout
    \/ StopStep
    \/ GetPorts
    \/ StopAll
    \/ \E i \in 1..Len(instances) : InstanceExit(i)
    \/ StartingExit
    \/ \E port \in Ports : StrayExit(port)
    \/ \E i \in 1..Len(instances) : InstanceBind(i)
    \/ StartingBind
    \/ \E port \in Ports : StrayBind(port)
    \/ StartingEmitMarker
    \/ \E port \in Ports, name \in ForeignNames : ForeignStart(port, name)

SpecMgr == InitMgr /\ [][NextMgr]_vars

\* several runs and their job folders
InitJobs ==
    /\ MgrIdle
    /\ resolver = "none"
    /\ PipeIdle(NoConfig, FALSE)
    /\ JobsIdle
    /\ CacheIdle
    /\ EditorIdle

NextJobs ==
    \/ ClockTick
    \/ \E r \in 1..MaxRuns : JobPrepare(r)
    \/ \E r \in 1..MaxRuns : JobEnd(r)

SpecJobs == InitJobs /\ [][NextJobs]_vars

\* all sequences over S of length at most n
SeqsUpTo(S, n) == UNION {[1..k -> S] : k \in 0..n}

\* the units of a dispatch and their mask cache, for every assignment of masks
\* to the tasks of the two units
InitCache ==
    /\ MgrIdle
    /\ resolver = "none"
    /\ PipeIdle(NoConfig, FALSE)
    /\ JobsIdle
    /\ EditorIdle
    /\ mask_cache = [key \in Masks |-> Missing]
    /\ cacheUnits \in [CacheUnitIds -> {CacheUnit(masks) :
                                           masks \in SeqsUpTo(Masks, MaxCacheTasks)}]

NextCache ==
    \/ \E w \in CacheUnitIds : CacheTest(w)
    \/ \E w \in CacheUnitIds : CacheRead(w)
    \/ \E w \in CacheUnitIds : CacheStore(w)
    \/ \E w \in CacheUnitIds : CacheSend(w)

SpecCache == InitCache /\ [][NextCache]_vars

\* the main window from its construction: no video, no segment
InitEditor ==
    /\ MgrIdle
    /\ resolver = "none"
    /\ PipeIdle(NoConfig, FALSE)
    /\ JobsIdle
    /\ CacheIdle
    /\ EditorIdle

NextEditor ==
    \/ LoadVideoFile
    \/ AddSegment
    \/ RemoveSegmentById
    \/ OnSegmentTableItemChanged

SpecEditor == InitEditor /\ [][NextEditor]_vars


\* segments of the runs: the first second, the rest, the whole, and some that
\* Segment.validate rejects
PipeStarts == {-1, 0, 1}
PipeEnds == {1, 3}
PipeSegments ==
    {Segment(s, e, m) : s \in PipeStarts, e \in PipeEnds, m \in Masks \cup {None}}

\* a 60-frame, 30 fps video, one port, a masked segment over the first second
\* and an unmasked one over the second
ExampleConfig ==
    [frames |-> 60, fps |-> 30,
     segments |-> <<Segment(0, 1, "m1"), Segment(1, 2, None)>>,
     lama_ports |-> LamaPorts(1)]

PipeConfigs ==
    {[frames |-> n, fps |-> 1, segments |-> segs, lama_ports |-> LamaPorts(p)] :
        n \in 0..MaxFrames, segs \in SeqsUpTo(PipeSegments, MaxSegs), p \in 0..MaxPorts}
    \cup {ExampleConfig}

InitPipe ==
    /\ MgrIdle
    /\ JobsIdle
    /\ CacheIdle
    /\ EditorIdle
    /\ resolver = "none"
    /\ \E config \in PipeConfigs, keep \in BOOLEAN : PipeIdle(config, keep)

\* run up to the end of the classification
NextFront ==
    \/ EnsurePreconditions
    \/ ProbeAndValidate
    \/ PrepareJobFolder
    \/ HasCudaHwaccel
    \/ ExtractCuda
    \/ ExtractCpu
    \/ CollectFrames
    \/ PrepareTasks

NextPipe ==
    \/ RequestCancel
    \/ NextFront
    \/ ProcessMaskedTasks
    \/ \E w \in DOMAIN unitPc : UnitCheck(w)
    \/ \E w \in DOMAIN unitPc : UnitPost(w)
    \/ \E w \in DOMAIN unitPc : UnitWrite(w)
    \/ \E w \in DOMAIN unitPc : UnitCount(w)
    \/ \E w \in DOMAIN unitPc : UnitEmit(w)
    \/ JoinUnits
    \/ HasNvenc
    \/ MergeNvenc
    \/ MergeCpu
    \/ MergeAudioProbe
    \/ ExtractAudio
    \/ MuxAudio
    \/ Cleanup

SpecPipe == InitPipe /\ [][NextPipe]_vars

\* segments and frame rates for the validation and the classification: bounds
\* on and between frame times, touching, overlapping, out of order, too long
ClassifyStarts == {0, 1, 2}
ClassifyEnds == {1, 2, 3}
ClassifyRates == {1, 2}
ClassifySegments ==
    {Segment(s, e, m) : s \in ClassifyStarts, e \in ClassifyEnds, m \in Masks \cup {None}}

ClassifyConfigs ==
    {[frames |-> n, fps |-> r, segments |-> segs, lama_ports |-> LamaPorts(1)] :
        n \in 1..MaxFrames, r \in ClassifyRates,
        segs \in SeqsUpTo(ClassifySegments, MaxSegs)}

InitClassify ==
    /\ MgrIdle
    /\ JobsIdle
    /\ CacheIdle
    /\ EditorIdle
    /\ resolver = "none"
    /\ \E config \in ClassifyConfigs : PipeIdle(config, FALSE)

SpecClassify == InitClassify /\ [][NextFront]_vars

(***************************************************************************)
(* Claims about the worker pool manager (checked under SpecMgr).           *)
(***************************************************************************)

\* C1: whenever set_instance_count(N) with 1 <= N <= MAX_INSTANCE_COUNT returns
\* normally, the registry holds exactly N instances and their ports are
\* strictly increasing in registry order.
C1_SetCountExactIncreasing ==
    (mgrCall.op = "set_instance_count" /\ mgrCall.status = "returned")
        => /\ Len(instances) = mgrCall.target
           /\ \A i, j \in 1..Len(instances) :
                 i < j => instances[i].port < instances[j].port

\* the owner names that spell the worker executable (case and surrounding
\* blanks aside)
WorkerExeSpellings == {LamaExeName, PaddedMixedLamaName}

\* C2: port-conflict resolution issues the forced termination only when the
\* owner's name was resolved and is the worker executable's name; when the
\* owner is unidentifiable (no listener pid, or name "unknown") or has another
\* name, the resolution raises and nothing is terminated, whatever the
\* resolver callback answers.
C2_KillOnlyOwnExecutable ==
    LET c == lastConflict
        identified == c.found # NoPid /\ c.name # UnknownName
                         /\ c.name \in WorkerExeSpellings
    IN /\ c.killIssued => identified
       /\ (~c.free /\ ~identified) => (c.raised /\ ~c.killIssued)

C2_Witness ==
    /\ lastConflict.killIssued
    /\ lastConflict.name = PaddedMixedLamaName
    /\ mgrPc = "wait"

\* C3: the registry never holds two instances with the same port whose
\* processes are both still running.
C3_OneLiveInstancePerPort ==
    \A i, j \in 1..Len(instances) :
        (i < j /\ instances[i].alive /\ instances[j].alive)
            => instances[i].port # instances[j].port

(***************************************************************************)
(* Claims about the processing pipeline (checked under SpecPipe, the       *)
(* classification under SpecClassify).                                     *)
(***************************************************************************)

\* the frames of the shard of a unit
UnitFrames(w) ==
    {masked_tasks[k].frame :
        k \in {t \in 1..Len(masked_tasks) : (t - 1) % Len(cfg.lama_ports) = w - 1}}

\* C4: when a dispatch unit has observed the cancellation flag at its per-task
\* checkpoint, the run ends with the cancelled signal, not with the error signal.
C4_UnitCancelEndsCancelled ==
    (stage = "done" /\ \E w \in DOMAIN unitPc : unitPc[w] = "cancelled")
        => outcome = "cancelled"

\* C5: a unit that has observed the cancellation flag sends no further request,
\* and no unit sends more than one request after the flag was set.
C5_NoRequestAfterObservedCancel ==
    /\ [](\A w \in DOMAIN postsAfterCancel : postsAfterCancel[w] <= 1)
    /\ [][\A w \in DOMAIN unitPc :
             unitPc[w] = "cancelled" => \A f \in UnitFrames(w) : posts'[f] = posts[f]]_vars

C5_Witness ==
    \E w \in DOMAIN unitPc :
        /\ unitPc[w] = "cancelled"
        /\ postsAfterCancel[w] = 1
        /\ \E f \in UnitFrames(w) : posts[f] = 0

\* C6: when the run has ended after a unit got a non-200 answer, the failed
\* unit sent nothing after the failing request, every unit without an error
\* of its own has written the result of every task of its shard, the run has
\* failed, and every error entry carries the unit's worker id and its port.
C6_SiblingsFinishRunFails ==
    (stage = "done" /\ \E k \in 1..Len(errors) : errors[k].kind = "http")
        => /\ outcome = "error"
           /\ \A k \in 1..Len(errors) :
                 /\ errors[k].worker_id \in 1..Len(cfg.lama_ports)
                 /\ errors[k].port = cfg.lama_ports[errors[k].worker_id]
           /\ \A w \in 1..Len(cfg.lama_ports) :
                 IF \E k \in 1..Len(errors) : errors[k].worker_id = w
                 THEN \A f, g \in UnitFrames(w) :
                         (f < g /\ output[f] = Missing) => posts[g] = 0
                 ELSE \A f \in UnitFrames(w) :
                         /\ posts[f] = 1
                         /\ output[f] # Missing /\ output[f] # SourceBytes(f)

C6_Witness ==
    /\ stage = "done"
    /\ ~cancel
    /\ Len(errors) = 1
    /\ errors[1].kind = "http"
    /\ \E w \in 1..Len(cfg.lama_ports) :
          /\ w # errors[1].worker_id
          /\ Cardinality(UnitFrames(w)) >= 1
          /\ \A f \in UnitFrames(w) : output[f] # Missing
    /\ \E f \in UnitFrames(errors[1].worker_id) : posts[f] = 0

\* the frames have been classified and no unit has run yet
Classified == stage \in {"dispatch_start", "pre_merge"}

\* C7: after classification of validated segments, every frame F is either an
\* inpaint task or a pass-through copy, never both; at most one segment
\* contains its time (F - 1) / fps in [start, end); F is a task with mask M
\* exactly when that segment exists and has mask M, and a copy otherwise.
C7_ClassificationBySegment ==
    Classified =>
        \A F \in 1..cfg.frames :
            LET containing == {k \in 1..Len(cfg.segments) :
                                  /\ cfg.segments[k].start_sec * cfg.fps <= F - 1
                                  /\ F - 1 < cfg.segments[k].end_sec * cfg.fps}
                tasksOfF == {t \in 1..Len(masked_tasks) : masked_tasks[t].frame = F}
            IN /\ Cardinality(containing) <= 1
               /\ Cardinality(tasksOfF) <= 1
               /\ (tasksOfF = {}) <=> (output[F] = SourceBytes(F))
               /\ (tasksOfF # {}) <=> (output[F] = Missing)
               /\ \A M \in Masks :
                     (\E t \in tasksOfF : masked_tasks[t].mask_path = M)
                         <=> (\E k \in containing : cfg.segments[k].mask_path = M)

C7_Witness ==
    /\ Classified
    /\ \E a, b \in 1..Len(cfg.segments), t \in 1..Len(masked_tasks) :
          /\ cfg.segments[a].end_sec = cfg.segments[b].start_sec
          /\ cfg.segments[a].mask_path \in Masks
          /\ cfg.segments[b].mask_path \in Masks
          /\ cfg.segments[a].mask_path # cfg.segments[b].mask_path
          /\ masked_tasks[t].frame - 1 = cfg.segments[b].start_sec * cfg.fps
          /\ masked_tasks[t].mask_path = cfg.segments[b].mask_path
    /\ \E F \in 1..cfg.frames : output[F] = SourceBytes(F)

\* the stages of run after the dispatch
AfterDispatch ==
    \/ stage \in {"pre_merge", "merge_nvenc", "merge_cpu", "merged", "audio_extract",
                  "audio_mux", "cleanup"}
    \/ outcome = "success"

\* C8: with zero segments no inference request is sent, and the output
\* directory handed to the merge holds exactly the extracted frame indices,
\* each with the bytes of the extracted frame.
C8_ZeroSegmentsRoundTrip ==
    (cfg.segments = <<>> /\ AfterDispatch)
        => /\ \A index \in 1..cfg.frames : posts[index] = 0
           /\ DOMAIN output = 1..cfg.frames
           /\ \A index \in 1..cfg.frames : output[index] = <<"frame", index>>

C8_Witness ==
    /\ cfg.segments = <<>>
    /\ cfg.frames >= 2
    /\ stage = "merge_cpu"
    /\ output[2] = <<"frame", 2>>

\* the run of the example: 60 frames at 30 fps, one port, frames 1-30 masked,
\* frames 31-60 in an unmasked segment, ended with the success signal
ExampleSucceeded ==
    /\ cfg.frames = 60 /\ cfg.fps = 30 /\ Len(cfg.lama_ports) = 1
    /\ Len(masked_tasks) = 30
    /\ \A t \in 1..30 : masked_tasks[t].frame = t
    /\ outcome = "success"

\* C9 as stated: the final progress callback of the example run reports (30, 30).
C9_FinalProgressThirty ==
    ExampleSucceeded => progressLog[Len(progressLog)] = <<30, 30>>

\* C9, amended: the final progress callback of the example run reports
\* (60, 60): the total is the number of all frames and the copied frames count.
C9_FinalProgressAllFrames ==
    ExampleSucceeded => progressLog[Len(progressLog)] = <<60, 60>>

C9_Witness ==
    /\ ExampleSucceeded
    /\ Len(progressLog) = 32

\* C10: the done values passed to the progress callback never decrease, under
\* every interleaving of the dispatch units.
C10_ProgressMonotone ==
    \A i, j \in 1..Len(progressLog) :
        i < j => progressLog[i][1] <= progressLog[j][1]

C10_Witness ==
    /\ Len(cfg.lama_ports) >= 2
    /\ \A w \in 1..2 : unitPos[w] >= 1
    /\ Len(progressLog) >= 3
    /\ stage = "done" /\ outcome = "success"

BadBounds(segment) == segment.start_sec < 0 \/ segment.end_sec <= segment.start_sec

\* C12: when a precondition fails (a tool or the video or an assigned mask is
\* missing, the port list is empty, a segment fails its bounds check) the run
\* raises with no job workspace created, no media-tool subprocess started and
\* no progress callback made.
C12_PreconditionFailureNoSideEffects ==
    /\ failure = "precondition"
          => (outcome = "error" /\ workspace = "none" /\ commands = <<>>
                /\ progressLog = <<>>)
    /\ (cfg.lama_ports = <<>> \/ \E k \in 1..Len(cfg.segments) : BadBounds(cfg.segments[k]))
          => (outcome \in {"none", "error"} /\ failure \in {"none", "precondition"}
                /\ workspace = "none" /\ commands = <<>> /\ progressLog = <<>>)

C12_Witness ==
    /\ failure = "precondition"
    /\ stage = "done"
    /\ cancel
    /\ cfg.lama_ports # <<>>
    /\ \E k \in 1..Len(cfg.segments) : cfg.segments[k].end_sec <= cfg.segments[k].start_sec
    /\ \E k \in 1..Len(cfg.segments) : cfg.segments[k].start_sec < 0

\* some segment ends after the probed duration frames / fps
EndsBeyondDuration ==
    \E k \in 1..Len(cfg.segments) : cfg.segments[k].end_sec * cfg.fps > cfg.frames

\* two segments of the list share a time
SomeOverlap ==
    \E i, j \in 1..Len(cfg.segments) :
        /\ i # j
        /\ cfg.segments[i].start_sec < cfg.segments[j].end_sec
        /\ cfg.segments[j].start_sec < cfg.segments[i].end_sec

\* C13: when a segment ends beyond the probed duration or two segments
\* overlap, the run never gets past the validation: no job workspace is
\* created and no frame-extraction command is started, and a run stopped by the
\* validation has failed.
C13_InvalidSegmentsFailBeforeExtraction ==
    /\ (EndsBeyondDuration \/ SomeOverlap)
          => /\ workspace = "none"
             /\ \A i \in 1..Len(commands) : commands[i] = "probe"
             /\ stage \in {"start", "probe", "done"}
             /\ outcome # "success"
    /\ failure = "validation"
          => (outcome = "error" /\ (EndsBeyondDuration \/ SomeOverlap))

C13_Witness ==
    /\ failure = "validation"
    /\ commands = <<"probe">>
    /\ ~EndsBeyondDuration
    /\ Len(cfg.segments) = 2
    /\ cfg.segments[1].start_sec > cfg.segments[2].start_sec

C15_CancelledRunDiscardsWorkspace ==
    (stage = "done" /\ outcome = "cancelled" /\ ~keep_temp) => workspace # "present"

\* C16: when stop_all has ended, whether it returned or a stop failed, every
\* managed instance has been taken from the registry and stopped: one failing
\* stop does not keep the remaining instances from being stopped.
C16_StopAllStopsEveryInstance ==
    (mgrCall.op = "stop_all" /\ mgrCall.status \in {"returned", "raised"})
        => instances = <<>>

\* C17: a call of set_instance_count with a target below 1 or above
\* MAX_INSTANCE_COUNT raises and leaves the manager untouched: the registry is
\* unchanged, dead instances included, and no process is started or stopped.
C17_BadTargetLeavesManagerUntouched ==
    [][(/\ mgrPc = "idle"
        /\ mgrCall'.op = "set_instance_count"
        /\ (mgrCall'.target < 1 \/ mgrCall'.target > 8))
          => /\ mgrCall'.status = "raised"
             /\ mgrPc' = "idle"
             /\ instances' = instances
             /\ strays' = strays
             /\ mgrProc' = mgrProc]_vars

C17_Witness ==
    /\ mgrCall.op = "set_instance_count"
    /\ mgrCall.status = "raised"
    /\ mgrCall.target = 0
    /\ Len(instances) = 2
    /\ ~instances[1].alive
    /\ instances[2].alive

\* the units that raised, by the place where they stopped
RaisedUnits == {w \in DOMAIN unitPc : unitPc[w] \in {"failed", "cancelled"}}

\* C18: the aggregate dispatch error is raised only when every submitted unit
\* has finished, the error list then has exactly one entry for every unit that
\* raised, and once a unit has raised, the run never executes the merge, the
\* audio remux or the cleanup.
C18_AggregateErrorAfterAllUnits ==
    /\ failure = "dispatch"
          => /\ \A w \in DOMAIN unitPc : unitPc[w] \in {"idle", "finished", "failed", "cancelled"}
             /\ Len(errors) = Cardinality(RaisedUnits)
             /\ {errors[k].worker_id : k \in 1..Len(errors)} = RaisedUnits
    /\ errors # <<>>
          => /\ stage \in {"dispatch", "done"}
             /\ outcome \in {"none", "error"}
             /\ workspace = "present"
             /\ \A i \in 1..Len(commands) :
                   commands[i] \in {"probe", "hwaccels", "extract_cuda", "extract_cpu"}
             /\ Len(commands) <= 4

C18_Witness ==
    /\ failure = "dispatch"
    /\ Len(errors) = 2
    /\ \A k \in 1..2 : errors[k].kind = "http"
    /\ \E w \in DOMAIN unitPc : unitPos[w] >= 1

\* C19: when the port is held by a process with the worker executable's name,
\* conflict resolution raises without terminating anything if no resolver is
\* configured, if the resolver returns false, or if it raises; the owner is
\* terminated only after the resolver returned true.
C19_OwnExecutableNeedsConsent ==
    LET c == lastConflict
        own == ~c.free /\ c.found # NoPid /\ c.name \in WorkerExeSpellings
    IN /\ (own /\ (resolver = "none" \/ c.answer \in {"false", "raise"}))
             => (c.raised /\ ~c.killIssued)
       /\ c.killIssued => (own /\ resolver = "callback" /\ c.answer = "true")

C19_Witness ==
    /\ ~lastConflict.free
    /\ lastConflict.found # NoPid
    /\ lastConflict.name = LamaExeName
    /\ resolver = "callback"
    /\ lastConflict.answer = "raise"
    /\ lastConflict.raised
    /\ mgrCall.status = "raised"

\* C20: a readiness poll made while the process being started is alive and a
\* ready marker is in its log declares the instance Ready at that poll: the
\* instance is registered, without waiting for the timeout.
C20_ReadyAtFirstPollWithMarker ==
    [][(/\ mgrPc = "wait"
        /\ mgrProc.alive
        /\ mgrProc.marker
        /\ (mgrPolled' # mgrPolled \/ mgrPc' # "wait"))
          => /\ Len(instances') = Len(instances) + 1
             /\ instances'[Len(instances')].port = mgrProc.port
             /\ ~mgrPolled]_vars

(***************************************************************************)
(* C21: when _start_instance fails readiness (the process has exited, or   *)
(* the timeout elapsed with the port closed and no ready banner in the     *)
(* log), terminate() is sent, kill() is sent only when the first bounded   *)
(* wait did not see the process exit, the registry is what it was (no      *)
(* instance is appended), and the call raises. Every step that ends the    *)
(* wait either registers the instance on a readiness signal or fails this  *)
(* way.                                                                    *)
(***************************************************************************)
C21_FailedStartStopsProcessAndRaises ==
    [][(mgrPc = "wait" /\ mgrPc' # "wait") =>
        /\ (~mgrProc.alive \/ (~IsPortOpen(mgrProc.port) /\ ~mgrProc.marker))
              => instances' = instances
        /\ \/ /\ Len(instances') = Len(instances) + 1
              /\ mgrCall'.status # "raised"
           \/ /\ instances' = instances
              /\ mgrPc' = "idle"
              /\ mgrCall'.status = "raised"
              /\ mgrCall'.stop.issued
              /\ mgrCall'.stop.kill = ~mgrCall'.stop.exited_in_time]_vars

\* a second start of a scale-up failed and needed the kill: the first instance
\* is still the whole registry
C21_Witness ==
    /\ mgrCall.op = "set_instance_count" /\ mgrCall.status = "raised"
    /\ mgrCall.target = 2
    /\ Len(instances) = 1
    /\ mgrCall.stop.issued /\ mgrCall.stop.kill /\ mgrCall.stop.gone
    /\ lastConflict = NoConflict

C23_LaunchPortIsBasePlusRegistrySize ==
    [][(mgrProc' # NoProc /\ mgrProc'.port # mgrProc.port) =>
        /\ mgrProc = NoProc
        /\ mgrPc = "scale_up" /\ mgrPc' = "wait"
        /\ mgrProc'.port = 8080 + Len(instances)
        /\ Len(instances') = Len(instances)]_vars

\* a worker was launched on the second port while the only instance of the
\* registry holds that very port
C23_Witness ==
    /\ mgrPc = "wait" /\ mgrProc.alive
    /\ Len(instances) = 1
    /\ instances[1].port = 8081 /\ instances[1].alive
    /\ mgrProc.port = 8081

C25_GetPortsLiveOrderedDistinct ==
    (mgrCall.op = "get_ports" /\ mgrCall.status = "returned") =>
        /\ \A i \in 1..Len(instances) : instances[i].alive
        /\ mgrCall.ports = [i \in 1..Len(instances) |-> instances[i].port]
        /\ \A i, j \in 1..Len(mgrCall.ports) :
              i # j => mgrCall.ports[i] # mgrCall.ports[j]

(***************************************************************************)
(* C26: between calls, whatever calls were made and however they ended,    *)
(* no worker process the manager launched is running without an entry in   *)
(* the registry.                                                           *)
(***************************************************************************)
C26_RunningWorkersAreRegistered ==
    mgrPc = "idle" =>
        \A port \in Ports :
            strays[port].idle = 0 /\ ~strays[port].listener.managed

(***************************************************************************)
(* C27: during dispatch, the inpaint task number i (counted from 0, in     *)
(* frame order) is in the shard of the port at position i mod P and in no  *)
(* other shard; each shard lists its tasks once, in frame order; the sizes *)
(* of two shards differ by at most one.                                    *)
(***************************************************************************)
C27_RoundRobinSharding ==
    stage = "dispatch" =>
        LET P == Len(cfg.lama_ports)
            T == Len(masked_tasks)
            shard(w) == Assigned(w)
        IN /\ DOMAIN unitPc = 1..P
           /\ \A i \in 0..(T - 1) : \A w \in 1..P :
                 (\E j \in DOMAIN shard(w) : shard(w)[j] = i + 1) <=> (w - 1 = i % P)
           /\ \A w \in 1..P : \A j, k \in DOMAIN shard(w) :
                 j < k => /\ shard(w)[j] < shard(w)[k]
                          /\ masked_tasks[shard(w)[j]].frame
                                < masked_tasks[shard(w)[k]].frame
           /\ \A w \in 1..P : \A j \in DOMAIN shard(w) : shard(w)[j] \in 1..T
           /\ \A v, w \in 1..P : Len(shard(v)) - Len(shard(w)) \in {-1, 0, 1}

\* three tasks over two ports: the first unit is at its second task, which is
\* the third task of the run, the second unit at the second task of the run
C27_Witness ==
    /\ stage = "dispatch"
    /\ Len(cfg.lama_ports) = 2 /\ Len(masked_tasks) = 3
    /\ unitPos[1] = 1 /\ unitPc[1] = "write" /\ posts[masked_tasks[3].frame] = 1
    /\ unitPos[2] = 0 /\ unitPc[2] = "write" /\ posts[masked_tasks[2].frame] = 1

(***************************************************************************)
(* C28: each file of the output directory has one writer in the whole run. *)
(* Two units that are both about to write have different frames, hence     *)
(* different destinations; and whoever writes a file, the pass-through     *)
(* copy or a unit, finds it absent: no file is written a second time.      *)
(***************************************************************************)
C28_OneWriterPerOutputFile ==
    [][/\ \A v, w \in DOMAIN unitPc :
            (v # w /\ unitPc[v] = "write" /\ unitPc[w] = "write")
                => CurrentTask(v).frame # CurrentTask(w).frame
       /\ \A name \in DOMAIN output :
            output'[name] # output[name] => output[name] = <<>>]_vars

\* both units are about to write, each to a file that is still absent, while
\* a pass-through copy is in the output directory
C28_Witness ==
    /\ stage = "dispatch"
    /\ Len(cfg.lama_ports) = 2
    /\ unitPc[1] = "write" /\ unitPc[2] = "write"
    /\ output[CurrentTask(1).frame] = <<>> /\ output[CurrentTask(2).frame] = <<>>
    /\ \E index \in DOMAIN output : output[index] = <<"frame", index>>

(***************************************************************************)
(* C29: every media-tool subprocess of a run is started with a check of    *)
(* the cancellation flag behind it and no other subprocess started since   *)
(* that check: no subprocess is started without such a check.              *)
(***************************************************************************)
C29_CheckpointBeforeEverySubprocess ==
    checkpoint.unchecked = {}

\* the stage of the state machine a position of run() belongs to: 1 Validating
\* (preconditions, probe, segment validation), 2 Extracting, 3 Dispatching
\* (classification, sharding, the units), 4 Merging, 5 RemuxingAudio,
\* 6 Cleanup, 7 the end of the run (Done, Cancelled or Failed)
Phase(st) ==
    CASE st \in {"start", "probe"} -> 1
      [] st \in {"job", "extract", "extract_cuda", "extract_cpu", "extracted"} -> 2
      [] st \in {"classify", "dispatch_start", "dispatch"} -> 3
      [] st \in {"pre_merge", "merge_nvenc", "merge_cpu"} -> 4
      [] st \in {"merged", "audio_extract", "audio_mux"} -> 5
      [] st = "cleanup" -> 6
      [] st = "done" -> 7

(***************************************************************************)
(* C30: a run goes through Validating, Extracting, Dispatching, Merging,   *)
(* RemuxingAudio, Cleanup and Done in this order: a step stays in its      *)
(* stage, enters the next one, or ends the run unsuccessfully; a run ends  *)
(* with success only out of Cleanup. While the run is in Extracting or     *)
(* later, every segment has passed the bounds check and the check against  *)
(* the probed duration and against overlaps; while it is in Merging or     *)
(* later, no dispatch unit is still running.                               *)
(***************************************************************************)
C30_StagesInOrder ==
    /\ [][stage' # stage =>
            /\ Phase(stage') >= Phase(stage)
            /\ \/ Phase(stage') <= Phase(stage) + 1
               \/ stage' = "done" /\ outcome' \in {"cancelled", "error"}
            /\ outcome' = "success" => stage = "cleanup" /\ stage' = "done"]_vars
    /\ [](Phase(stage) \in 2..6 =>
            /\ \A k \in 1..Len(cfg.segments) : ~BadBounds(cfg.segments[k])
            /\ ~EndsBeyondDuration /\ ~SomeOverlap)
    /\ [](Phase(stage) \in 4..6 =>
            \A w \in DOMAIN unitPc : unitPc[w] \in {"idle", "finished"})

\* the merge has started after a dispatch in which two units did their work,
\* over segments that passed both validations
C30_Witness ==
    /\ stage = "merge_cpu"
    /\ Len(cfg.segments) = 2 /\ Len(cfg.lama_ports) = 2
    /\ unitPc = <<"finished", "finished">>

(***************************************************************************)
(* C31: the cancelled end is reachable from every step of the run, from    *)
(* Validating to Cleanup: a run during which the cancellation flag was set *)
(* (RequestCancel acts only while the run is in one of these steps) does   *)
(* not end Done.                                                           *)
(***************************************************************************)
C31_CancelledFromEveryStep ==
    (stage = "done" /\ cancel) => outcome # "success"

\* how often a command was started in the run
Started(name) == Cardinality({i \in 1..Len(commands) : commands[i] = name})

\* the command started right before the i-th one, "none" for the first
Before(i) == IF i = 1 THEN "none" ELSE commands[i - 1]

C33_DistinctJobFolders ==
    \A r1, r2 \in 1..MaxRuns :
        (r1 # r2 /\ jobRuns[r1].pc = "running" /\ jobRuns[r2].pc = "running")
            => jobRuns[r1].job_root # jobRuns[r2].job_root

(***************************************************************************)
(* C34: in a run no frame is sent to the inference endpoint more than      *)
(* once, and a pass-through frame is never sent. A unit that got an answer *)
(* other than 200 has sent that task once and none of the tasks after it   *)
(* in its shard, and from then on nobody sends a request for any frame of  *)
(* that shard.                                                             *)
(***************************************************************************)
C34_AtMostOneRequestPerTask ==
    /\ [](\A f \in DOMAIN posts :
            /\ posts[f] <= 1
            /\ (\A k \in 1..Len(masked_tasks) : masked_tasks[k].frame # f)
                  => posts[f] = 0)
    /\ [](\A k \in 1..Len(errors) :
            errors[k].kind = "http" =>
                LET w == errors[k].worker_id
                    sent == {f \in UnitFrames(w) : posts[f] = 1}
                IN /\ sent # {}
                   /\ \A f \in sent, g \in UnitFrames(w) : posts[g] = 0 => f < g
                   /\ \E f \in sent : /\ output[f] = <<>>
                                       /\ \A g \in sent : g <= f)
    /\ [][\A k \in 1..Len(errors) :
            errors[k].kind = "http" =>
                \A f \in UnitFrames(errors[k].worker_id) : posts'[f] = posts[f]]_vars

\* the first unit failed at its first task while the second unit went on: the
\* third task of the run, second of the failed unit's shard, was never sent
C34_Witness ==
    /\ stage = "done" /\ outcome = "error"
    /\ Len(cfg.lama_ports) = 2 /\ Len(masked_tasks) = 3
    /\ unitPc = <<"failed", "finished">>
    /\ posts[masked_tasks[1].frame] = 1 /\ output[masked_tasks[1].frame] = <<>>
    /\ posts[masked_tasks[2].frame] = 1
    /\ posts[masked_tasks[3].frame] = 0

(***************************************************************************)
(* C35: however the units interleave on the unlocked mask cache, the entry *)
(* of a path is absent or holds the bytes of the file at that path, and    *)
(* the mask bytes a unit sends with a task are the bytes of the file at    *)
(* the mask path of that task.                                             *)
(***************************************************************************)
C35_CacheHoldsOwnMaskBytes ==
    /\ \A mask_path \in Masks :
          mask_cache[mask_path] \in {<<>>, <<"mask", mask_path>>}
    /\ \A w \in CacheUnitIds :
          cacheUnits[w].sent # <<>> =>
              /\ cacheUnits[w].sent[1] = cacheUnits[w].masks[cacheUnits[w].pos]
              /\ cacheUnits[w].sent[2] = <<"mask", cacheUnits[w].sent[1]>>

\* both units found the entry of m2 absent: the second has stored it and is
\* sending, the first is about to store it again, after a task with m1
C35_Witness ==
    /\ cacheUnits[1].pc = "store" /\ cacheUnits[1].masks = <<"m1", "m2">>
    /\ cacheUnits[1].pos = 1
    /\ cacheUnits[2].pc = "send" /\ cacheUnits[2].masks = <<"m2">>
    /\ mask_cache = [key \in Masks |-> <<"mask", key>>]

(***************************************************************************)
(* C36: after any sequence of add-segment, edit-segment and remove-segment *)
(* in the main window the segment list is sorted by start frame, no two    *)
(* segments overlap under inclusive frame bounds (for rows i < j the end   *)
(* frame of i is below the start frame of j), and every segment has        *)
(* 1 <= start_frame <= end_frame.                                          *)
(***************************************************************************)
C36_SegmentListSortedDisjointValid ==
    /\ \A i \in 1..Len(self_segments) :
          /\ 1 <= self_segments[i].start_frame
          /\ self_segments[i].start_frame <= self_segments[i].end_frame
    /\ \A i \in 1..Len(self_segments), j \in 1..Len(self_segments) :
          i < j => /\ self_segments[i].start_frame <= self_segments[j].start_frame
                   /\ self_segments[i].end_frame < self_segments[j].start_frame

\* three segments, the last operation an accepted add whose segment was put in
\* front of the ones that were there
C36_Witness ==
    /\ Len(self_segments) = 3
    /\ edit.op = "add" /\ edit.result = "accepted"
    /\ self_segments[1].segment_id = 3

(***************************************************************************)
(* C39: after any sequence of load-video, add-segment, edit-segment and    *)
(* remove-segment in the main window, every segment ends at or before the  *)
(* last frame of the video that is loaded: end_frame <= total_frames.      *)
(***************************************************************************)
C39_SegmentsWithinLoadedVideo ==
    \A i \in 1..Len(self_segments) :
        self_segments[i].end_frame <= video_info.total_frames

(***************************************************************************)
(* C40: a segment edit that is rejected, for text that is no number, a     *)
(* start after the end, an end beyond the total frames or an overlap,      *)
(* leaves the segment list as it was: both frames of the edited segment    *)
(* restored, every other segment and the order unchanged.                  *)
(***************************************************************************)
C40_RejectedEditLeavesListUnchanged ==
    [][(edit'.op = "edit" /\ edit'.result = "rejected")
          => self_segments' = self_segments]_vars

\* two segments, and the last operation an edit refused for an overlap
C40_Witness ==
    /\ Len(self_segments) = 2
    /\ edit.op = "edit" /\ edit.result = "rejected"
    /\ edit.error = "overlaps existing segment"

\* segments i and j of the configuration follow each other in start order
AdjacentInStartOrder(i, j) ==
    /\ i # j
    /\ cfg.segments[i].start_sec <= cfg.segments[j].start_sec
    /\ ~\E k \in 1..Len(cfg.segments) :
          /\ cfg.segments[i].start_sec < cfg.segments[k].start_sec
          /\ cfg.segments[k].start_sec < cfg.segments[j].start_sec

\* the two reasons for which the validation after the probe refuses
RefusedAfterProbe ==
    \/ \E k \in 1..Len(cfg.segments) : cfg.segments[k].end_sec * cfg.fps > cfg.frames
    \/ \E i, j \in 1..Len(cfg.segments) :
          AdjacentInStartOrder(i, j) /\ cfg.segments[i].end_sec > cfg.segments[j].start_sec

(***************************************************************************)
(* C37: the validation after the probe refuses exactly when some segment   *)
(* ends after the probed duration or some pair adjacent in start order has *)
(* left.end > right.start. Segments that touch are accepted, and the frame *)
(* whose time is the boundary they share is classified by the right-hand   *)
(* segment: a task with its mask, or a copy when it has none.              *)
(***************************************************************************)
C37_ValidationRefusesExactly ==
    /\ failure = "validation" => RefusedAfterProbe
    /\ (stage = "job" \/ Classified) => ~RefusedAfterProbe
    /\ Classified =>
          \A a, b \in 1..Len(cfg.segments), F \in 1..cfg.frames :
              (/\ a # b
               /\ cfg.segments[a].end_sec = cfg.segments[b].start_sec
               /\ F - 1 = cfg.segments[b].start_sec * cfg.fps)
                  => IF cfg.segments[b].mask_path \in Masks
                     THEN \E t \in 1..Len(masked_tasks) :
                             /\ masked_tasks[t].frame = F
                             /\ masked_tasks[t].mask_path = cfg.segments[b].mask_path
                     ELSE /\ output[F] = <<"frame", F>>
                          /\ \A t \in 1..Len(masked_tasks) : masked_tasks[t].frame # F

\* two touching segments given right one first, the left with a mask and the
\* right without: the frame before the boundary is a task, the boundary frame a copy
C37_Witness ==
    /\ Classified
    /\ cfg.fps = 1 /\ cfg.frames = 3
    /\ Len(cfg.segments) = 2
    /\ cfg.segments[1].start_sec = 1 /\ cfg.segments[1].end_sec = 2
    /\ cfg.segments[2].start_sec = 0 /\ cfg.segments[2].end_sec = 1
    /\ cfg.segments[2].mask_path = "m1" /\ cfg.segments[1].mask_path \notin Masks
    /\ Len(masked_tasks) = 1 /\ masked_tasks[1].frame = 1
    /\ output[2] = <<"frame", 2>>

\* the frames that were copied to the output directory
CopiedFrames == {F \in DOMAIN output : output[F] = <<"frame", F>>}

\* the inpainted frames a unit has counted: the tasks it has finished, and
\* the one it holds the progress lock for
CountedTasks ==
    {<<w, k>> \in (DOMAIN unitPc) \X (1..cfg.frames) :
        k <= unitPos[w] + (IF unitPc[w] = "emit" THEN 1 ELSE 0)}

(***************************************************************************)
(* C38: at every point 0 <= done <= total, and once the frames have been   *)
(* collected total is the number of extracted frames; every frame counts   *)
(* exactly once, the pass-through frames in one bulk step and the          *)
(* inpainted frames one by one, so that a run that reaches the merge has   *)
(* done = total.                                                           *)
(***************************************************************************)
C38_EveryFrameCountedOnce ==
    /\ [](/\ 0 <= done_count /\ done_count <= total_count
          /\ total_count \in {0, cfg.frames}
          /\ (stage \in {"classify", "dispatch_start", "dispatch"} \/ AfterDispatch)
                => total_count = cfg.frames)
    /\ []((stage \in {"dispatch_start", "dispatch"} \/ AfterDispatch)
            => done_count = Cardinality(CopiedFrames) + Cardinality(CountedTasks))
    /\ []((stage \in {"pre_merge", "merge_nvenc", "merge_cpu", "merged"})
            => (done_count = total_count /\ done_count = cfg.frames))
    /\ [][done_count' # done_count =>
            \/ stage = "dispatch" /\ done_count' = done_count + 1
            \/ /\ stage = "classify" /\ done_count = 0
               /\ done_count' = Cardinality({F \in DOMAIN output' :
                                                output'[F] = <<"frame", F>>})]_vars

\* a run at the merge with one copied frame and two inpainted frames, one
\* from each of two units
C38_Witness ==
    /\ stage = "pre_merge"
    /\ cfg.frames = 3 /\ Len(cfg.lama_ports) = 2
    /\ Len(masked_tasks) = 2
    /\ Cardinality(CopiedFrames) = 1
    /\ done_count = 3 /\ total_count = 3
====
